---- MODULE Spec2Model ----
(***************************************************************************)
(* A model of the blang compiler front end: the scanner (scanner.rs), the  *)
(* recursive-descent parser with its two recovery routines (parser.rs),    *)
(* the validator (validator.rs) and the driver loop (lib.rs).              *)
(*                                                                         *)
(* A source file is a sequence of one-character strings (the bytes of      *)
(* File::data).  Rust indices are 0-based: byte i of the file is           *)
(* file[i + 1] here.                                                       *)
(***************************************************************************)
EXTENDS Integers, Sequences, FiniteSets, TLC

VARIABLES scanner, token, ncalls, parser, res, validator, pending, validated,
          compiled, pc

vars == <<scanner, token, ncalls, parser, res, validator, pending, validated,
          compiled, pc>>

scanVars == <<token, ncalls>>

parseVars == <<parser, res>>

driverVars == <<validator, pending, validated, compiled>>

(***************************************************************************)
(* Bounds of the model.                                                    *)
(***************************************************************************)
MaxScanLen == 3

(***************************************************************************)
(* Characters.                                                             *)
(***************************************************************************)
None == "NONE"

DigitSeq == <<"0", "1", "2", "3", "4", "5", "6", "7", "8", "9">>

\* (ch >= b'a' && ch <= b'z') || (ch >= b'A' && ch <= b'Z')
is_alpha(ch) ==
    \/ ch \in {"a", "b", "c", "d", "e", "f", "g", "h", "i", "j", "k", "l", "m",
               "n", "o", "p", "q", "r", "s", "t", "u", "v", "w", "x", "y", "z"}
    \/ ch \in {"A", "B", "C", "D", "E", "F", "G", "H", "I", "J", "K", "L", "M",
               "N", "O", "P", "Q", "R", "S", "T", "U", "V", "W", "X", "Y", "Z"}

is_digit(ch) == \E i \in 1..10 : DigitSeq[i] = ch

(***************************************************************************)
(* Scanner: file, line, start, current.                                    *)
(***************************************************************************)
Scanner_new(file) == [file |-> file, line |-> 1, start |-> 0, current |-> 0]

Get(file, i) == IF i >= 0 /\ i < Len(file) THEN file[i + 1] ELSE None

peek(sc) == Get(sc.file, sc.current)

sc_is_at_end(sc) == sc.current >= Len(sc.file)

\* A cursor that is only moved while it is inside the file.
sc_advance_inside(sc) ==
    IF sc.current < Len(sc.file) - 1 THEN [sc EXCEPT !.current = sc.current + 1]
    ELSE sc

\* advance(): current is incremented even when the read is out of range.
sc_advance(sc) == [sc EXCEPT !.current = sc.current + 1]

\* The closures handed to advance_while, by name.
Holds(f, ch) ==
    CASE f = "is_digit" -> is_digit(ch)
      [] f = "ident" -> is_alpha(ch) \/ is_digit(ch) \/ ch = "_"
      [] f = "not_quote" -> ch # "\""
      [] f = "whitespace" -> ch \in {" ", "\t", "\r", "\n"}

\* advance_while(f): the first index at or after current where f fails or
\* the file ends.
advance_while(sc, f) ==
    IF sc.current >= Len(sc.file) THEN sc
    ELSE LET stop == CHOOSE j \in sc.current..Len(sc.file) :
                        /\ \A k \in sc.current..(j - 1) : Holds(f, Get(sc.file, k))
                        /\ (j = Len(sc.file) \/ ~Holds(f, Get(sc.file, j)))
         IN [sc EXCEPT !.current = stop]

\* The scanner s2 that skip_whitespace stops at, with line incremented for
\* every newline passed since sc.
count_lines(sc, s2) ==
    [s2 EXCEPT !.line = sc.line + Cardinality({k \in sc.current..(s2.current - 1) :
                                                  Get(sc.file, k) = "\n"})]

skip_whitespace(sc) == count_lines(sc, advance_while(sc, "whitespace"))

sc_matching(sc, ch) ==
    IF peek(sc) = ch THEN [hit |-> TRUE, sc |-> sc_advance(sc)]
    ELSE [hit |-> FALSE, sc |-> sc]

make_token(sc, kind) ==
    [kind |-> kind, line |-> sc.line,
     data |-> SubSeq(sc.file, sc.start + 1, sc.current)]

make_error_token(sc, msg) == [kind |-> "Error", line |-> sc.line, data |-> <<msg>>]

make_eof_token(sc) == [kind |-> "EndOfFile", line |-> sc.line, data |-> <<>>]

\* check_rest: compares rest against the file bytes from start + already;
\* the length of the lexeme is not consulted.
check_rest(sc, already, rest, keyword) ==
    IF \A i \in already..(Len(rest) + already - 1) :
           Get(sc.file, sc.start + i) = rest[i - already + 1]
    THEN keyword
    ELSE "Identifier"

check_identifier(sc) ==
    LET c0 == Get(sc.file, sc.start) IN
    CASE c0 = "i" -> check_rest(sc, 1, <<"f">>, "KeywordIf")
      [] c0 = "r" -> check_rest(sc, 1, <<"e", "t", "u", "r", "n">>, "KeywordReturn")
      [] c0 = "e" ->
            IF sc.current - sc.start > 1
            THEN LET c1 == Get(sc.file, sc.start + 1) IN
                 CASE c1 = "l" -> check_rest(sc, 2, <<"s", "e">>, "KeywordElse")
                   [] c1 = "x" -> check_rest(sc, 2, <<"t", "e", "r", "n">>, "KeywordExtern")
                   [] OTHER -> "Identifier"
            ELSE "Identifier"
      [] c0 = "w" -> check_rest(sc, 1, <<"h", "i", "l", "e">>, "KeywordWhile")
      [] c0 = "d" -> check_rest(sc, 1, <<"o">>, "KeywordDo")
      [] c0 = "b" -> check_rest(sc, 1, <<"r", "e", "a", "k">>, "KeywordBreak")
      [] c0 = "c" -> check_rest(sc, 1, <<"o", "n", "t", "i", "n", "u", "e">>, "KeywordContinue")
      [] c0 = "a" -> check_rest(sc, 1, <<"u", "t", "o">>, "KeywordAuto")
      [] OTHER -> "Identifier"

\* A scanner function returns the token and the scanner after the call.
Single(sc, kind) == [tok |-> make_token(sc, kind), sc |-> sc]

SingleError(sc, msg) == [tok |-> make_error_token(sc, msg), sc |-> sc]

\* identifier_or_keyword once advance_while has consumed the lexeme.
classify_identifier(sc) == Single(sc, check_identifier(sc))

identifier_or_keyword(sc) == classify_identifier(advance_while(sc, "ident"))

number(sc) == Single(advance_while(sc, "is_digit"), "IntLiteral")

\* The end of string and of character_literal, once the scanner stands
\* where the closing quote should be.
close_literal(sc, kind) ==
    IF sc_is_at_end(sc) THEN SingleError(sc, "unterminated character literal")
    ELSE Single(sc_advance(sc), kind)

string(sc) == close_literal(advance_while(sc, "not_quote"), "StringLiteral")

character_literal(sc) ==
    IF sc_is_at_end(sc) THEN SingleError(sc, "expected character")
    ELSE close_literal(sc_advance(sc), "CharLiteral")

\* One character of lookahead: kind2 when the next byte is ch2, else kind1.
Double(sc, ch2, kind2, kind1) ==
    LET m == sc_matching(sc, ch2)
    IN Single(m.sc, IF m.hit THEN kind2 ELSE kind1)

\* One character with two possible second characters (the > and < arms).
Triple(sc, chA, kindA, chB, kindB, kind1) ==
    LET m == sc_matching(sc, chA) IN
    IF m.hit THEN Single(m.sc, kindA) ELSE Double(sc, chB, kindB, kind1)

SingleKind(ch) ==
    CASE ch = "(" -> "LeftParen"
      [] ch = ")" -> "RightParen"
      [] ch = "{" -> "LeftBracket"
      [] ch = "}" -> "RightBracket"
      [] ch = "[" -> "LeftBrace"
      [] ch = "]" -> "RightBrace"
      [] ch = ";" -> "Semicolon"
      [] ch = ":" -> "Colon"
      [] ch = "," -> "Comma"
      [] ch = "?" -> "QuestionMark"
      [] ch = "*" -> "Star"
      [] ch = "/" -> "Slash"
      [] ch = "%" -> "Percent"
      [] ch = "~" -> "Tilda"
      [] ch = "^" -> "UpArrow"
      [] OTHER -> None

\* The `-` arm: `--`, else a digit next starts a number, else Minus.
MinusArm_operator_only(s2) == Double(s2, "-", "MinusMinus", "Minus")

MinusArm(s2) ==
    LET m == sc_matching(s2, "-") IN
    IF m.hit THEN Single(m.sc, "MinusMinus")
    ELSE IF is_digit(IF peek(s2) = None THEN "_" ELSE peek(s2))
         THEN number(s2)
         ELSE Single(s2, "Minus")

\* The match of next_token on the byte ch that advance() returned; s2 is the
\* scanner after that advance().
match_byte(ch, s2) ==
        CASE ch = None -> [tok |-> make_eof_token(s2), sc |-> s2]
          [] SingleKind(ch) # None -> Single(s2, SingleKind(ch))
          [] ch = "+" -> Double(s2, "+", "PlusPlus", "Plus")
          [] ch = "-" -> MinusArm(s2)
          [] ch = "!" -> Double(s2, "=", "BangEqual", "Bang")
          [] ch = "=" -> Double(s2, "=", "EqualEqual", "Equal")
          [] ch = ">" -> Triple(s2, "=", "GreaterEqual", ">", "GreaterGreater", "Greater")
          [] ch = "<" -> Triple(s2, "=", "LessEqual", "<", "LessLess", "Less")
          [] ch = "|" -> Double(s2, "|", "BarBar", "Bar")
          [] ch = "&" -> Double(s2, "&", "AmpersandAmpersand", "Ampersand")
          [] ch = "'" -> character_literal(s2)
          [] ch = "\"" -> string(s2)
          [] is_alpha(ch) \/ ch = "_" -> identifier_or_keyword(s2)
          [] is_digit(ch) -> number(s2)
          [] OTHER -> SingleError(s2, "unrecognized character")

\* self.start = self.current
begin_token(sc) == [sc EXCEPT !.start = sc.current]

\* next_token() after skip_whitespace and self.start = self.current.
scan_token(sc) == match_byte(peek(sc), sc_advance(sc))

\* next_token(): returns the token and the scanner after the call.
next_token(sc) == scan_token(begin_token(skip_whitespace(sc)))

(***************************************************************************)
(* AST (ast.rs).  Every node kind is a record with the same fields, so     *)
(* that any two nodes can be compared; Option<T> is a sequence of length   *)
(* 0 or 1, a String is its sequence of characters, pos is the line.        *)
(***************************************************************************)
IntLit(pos, n) ==
    [kind |-> "IntLit", pos |-> pos, num |-> n, name |-> <<>>, op |-> None,
     postfix |-> FALSE, kids |-> <<>>]

StringLit(pos, str) ==
    [kind |-> "StringLit", pos |-> pos, num |-> 0, name |-> str, op |-> None,
     postfix |-> FALSE, kids |-> <<>>]

Var(pos, name) ==
    [kind |-> "Var", pos |-> pos, num |-> 0, name |-> name, op |-> None,
     postfix |-> FALSE, kids |-> <<>>]

UnaryOp(pos, op, postfix, e) ==
    [kind |-> "UnaryOp", pos |-> pos, num |-> 0, name |-> <<>>, op |-> op,
     postfix |-> postfix, kids |-> <<e>>]

BinOp(pos, l, op, r) ==
    [kind |-> "BinOp", pos |-> pos, num |-> 0, name |-> <<>>, op |-> op,
     postfix |-> FALSE, kids |-> <<l, r>>]

Ternary(pos, c, t, e) ==
    [kind |-> "Ternary", pos |-> pos, num |-> 0, name |-> <<>>, op |-> None,
     postfix |-> FALSE, kids |-> <<c, t, e>>]

Stmt(kind, pos, name, count, expr, kids) ==
    [kind |-> kind, pos |-> pos, name |-> name, count |-> count, expr |-> expr,
     kids |-> kids]

Function(pos, name, params, body) ==
    [kind |-> "Function", pos |-> pos, name |-> name, params |-> params,
     body |-> <<body>>, count |-> 0, initial |-> <<>>]

Data(pos, name, count, initial) ==
    [kind |-> "Data", pos |-> pos, name |-> name, params |-> <<>>,
     body |-> <<>>, count |-> count, initial |-> initial]

(***************************************************************************)
(* str::parse::<i32>() on a lexeme: an optional sign, then digits folded   *)
(* with checked multiplication and checked addition (subtraction for a     *)
(* negative number).                                                       *)
(***************************************************************************)
I32Max == 2147483647

I32Min == (-I32Max) - 1

DigitVal(ch) == (CHOOSE i \in 1..10 : DigitSeq[i] = ch) - 1

RECURSIVE FoldDigits(_, _, _)
FoldDigits(ds, acc, neg) ==
    IF ds = <<>> THEN [ok |-> TRUE, num |-> acc, msg |-> None]
    ELSE IF ~is_digit(Head(ds))
    THEN [ok |-> FALSE, num |-> 0, msg |-> "invalid digit found in string"]
    ELSE LET d == DigitVal(Head(ds)) IN
         IF neg
         THEN IF acc < -(I32Max \div 10) \/ acc * 10 < I32Min + d
              THEN [ok |-> FALSE, num |-> 0,
                    msg |-> "number too small to fit in target type"]
              ELSE FoldDigits(Tail(ds), acc * 10 - d, neg)
         ELSE IF acc > I32Max \div 10 \/ acc * 10 > I32Max - d
              THEN [ok |-> FALSE, num |-> 0,
                    msg |-> "number too large to fit in target type"]
              ELSE FoldDigits(Tail(ds), acc * 10 + d, neg)

parse_i32_saturating(data) ==
    LET neg == data # <<>> /\ Head(data) = "-"
        r == IF data = <<>>
             THEN [ok |-> FALSE, num |-> 0, msg |-> "cannot parse integer from empty string"]
             ELSE IF Head(data) \in {"-", "+"}
             THEN IF Len(data) = 1
                  THEN [ok |-> FALSE, num |-> 0, msg |-> "invalid digit found in string"]
                  ELSE FoldDigits(Tail(data), 0, neg)
             ELSE FoldDigits(data, 0, FALSE)
    IN IF r.ok \/ r.msg = "invalid digit found in string"
                \/ r.msg = "cannot parse integer from empty string"
       THEN r
       ELSE [ok |-> TRUE, num |-> IF neg THEN I32Min ELSE I32Max, msg |-> None]

parse_i32(data) ==
    IF data = <<>>
    THEN [ok |-> FALSE, num |-> 0, msg |-> "cannot parse integer from empty string"]
    ELSE IF Head(data) \in {"-", "+"}
    THEN IF Len(data) = 1
         THEN [ok |-> FALSE, num |-> 0, msg |-> "invalid digit found in string"]
         ELSE FoldDigits(Tail(data), 0, Head(data) = "-")
    ELSE FoldDigits(data, 0, FALSE)

(***************************************************************************)
(* Parser: scanner, previous_token, current_token, had_error.  out is the  *)
(* sequence of errors handed to report_error (stderr), sync the record of  *)
(* the recovery runs, panicked is set when panic!() is reached.            *)
(*                                                                         *)
(* A parse function returns [ok, v, e, p]: Ok(v) or Err(e), and the parser *)
(* after the call.                                                         *)
(***************************************************************************)
Ok(v, p) == [ok |-> TRUE, v |-> v, e |-> <<>>, p |-> p]

Err(e, p) == [ok |-> FALSE, v |-> <<>>, e |-> e, p |-> p]

\* Parser::new with r what scanner.next_token() returned.
first_token(r) ==
    [scanner |-> r.sc,
     previous_token |-> [kind |-> "Error", line |-> 0, data |-> <<>>],
     current_token |-> r.tok,
     had_error |-> FALSE,
     out |-> <<>>,
     sync |-> <<>>,
     blocks |-> <<>>,
     turns |-> <<>>,
     panicked |-> FALSE]

Parser_new(sc) == first_token(next_token(sc))

p_is_at_end(p) == p.current_token.kind = "EndOfFile"

check(p, kind) == p.current_token.kind = kind

\* advance() with r what self.scanner.next_token() returned.
take_token(p, r) ==
    [p EXCEPT !.previous_token = p.current_token,
              !.current_token = r.tok,
              !.scanner = r.sc]

advance(p) == take_token(p, next_token(p.scanner))

matching(p, kind) ==
    IF check(p, kind) THEN [hit |-> TRUE, p |-> advance(p)]
    ELSE [hit |-> FALSE, p |-> p]

\* matching() over the alternatives of a `||` chain: at most one can hit.
matching_any(p, kinds) ==
    IF p.current_token.kind \in kinds THEN [hit |-> TRUE, p |-> advance(p)]
    ELSE [hit |-> FALSE, p |-> p]

error_at_current_unflagged(p, msg) ==
    Err([line |-> p.current_token.line, msg |-> msg, at |-> p.current_token.kind], p)

error_at_current(p, msg) ==
    Err([line |-> p.current_token.line, msg |-> msg, at |-> p.current_token.kind],
        [p EXCEPT !.had_error = TRUE])

\* require() with m what self.matching(kind) returned.
required(m, error_msg) ==
    IF m.hit THEN Ok(m.p.previous_token, m.p) ELSE error_at_current(m.p, error_msg)

require(p, kind, error_msg) == required(matching(p, kind), error_msg)

report_error(p, e) == [p EXCEPT !.out = Append(p.out, e)]

Panic(p) ==
    Err([line |-> p.current_token.line, msg |-> "panic", at |-> p.current_token.kind],
        [p EXCEPT !.panicked = TRUE])

RECURSIVE parse_unary(_), parse_primary(_), continue_parse_postfix(_, _),
          fold_expression_type(_, _, _), Climb(_, _, _), parse_stmt(_),
          parse_block_stmt(_), block_loop(_, _), parse_if_stmt(_),
          parse_while_stmt(_), parse_do_stmt(_), parse_auto_stmt(_),
          continue_parse_fn(_, _), parameters_loop(_, _)

(***************************************************************************)
(* The body of a parse function is a run of `let x = self.f()?;` lines.   *)
(* Below, the result r of the lines so far carries in r.v the values bound *)
(* so far, in order; an Err is carried through the remaining lines, as `?` *)
(* returns it.                                                             *)
(***************************************************************************)
\* `let x = q?;` (keep) or `q?;` after the values vs.
Bind(vs, q, keep) ==
    IF q.ok
    THEN Ok(IF keep THEN Append(vs, q.v) ELSE vs, q.p)
    ELSE q

\* `self.require(kind, error_msg)?;`
then_require(r, kind, error_msg) ==
    IF r.ok
    THEN Bind(r.v, require(r.p, kind, error_msg), FALSE)
    ELSE r

\* `let token = self.require(kind, error_msg)?;`
then_token(r, kind, error_msg) ==
    IF r.ok
    THEN Bind(r.v, require(r.p, kind, error_msg), TRUE)
    ELSE r

(***************************************************************************)
(* Expressions (parser.rs 196-339).                                        *)
(***************************************************************************)

\* The chain of calls below parse_expr: every function first calls the one
\* before it in Chain (the $inner of a parse_expression_type! invocation,
\* parser.rs 200 and 240-250; parse_ternary for parse_assignment,
\* parse_logical_or for parse_ternary), and parse_factor first calls
\* parse_unary.
ChainTermInnermost ==
    <<"parse_term", "parse_factor", "parse_shift", "parse_comparison",
      "parse_equality", "parse_bitwise_and", "parse_bitwise_xor",
      "parse_bitwise_or", "parse_logical_and", "parse_logical_or",
      "parse_ternary", "parse_assignment", "parse_comma_expr">>

Chain ==
    <<"parse_factor", "parse_term", "parse_shift", "parse_comparison",
      "parse_equality", "parse_bitwise_and", "parse_bitwise_xor",
      "parse_bitwise_or", "parse_logical_and", "parse_logical_or",
      "parse_ternary", "parse_assignment", "parse_comma_expr">>

Rank(name) == CHOOSE k \in DOMAIN Chain : Chain[k] = name

\* The $type list of every parse_expression_type! invocation.
LevelTypes(name) ==
    CASE name = "parse_comma_expr" -> {"Comma"}
      [] name = "parse_logical_or" -> {"BarBar"}
      [] name = "parse_logical_and" -> {"AmpersandAmpersand"}
      [] name = "parse_bitwise_or" -> {"Bar"}
      [] name = "parse_bitwise_xor" -> {"UpArrow"}
      [] name = "parse_bitwise_and" -> {"Ampersand"}
      [] name = "parse_equality" -> {"EqualEqual", "BangEqual"}
      [] name = "parse_comparison" -> {"Greater", "Less", "GreaterEqual", "LessEqual"}
      [] name = "parse_shift" -> {"GreaterGreater", "LessLess"}
      [] name = "parse_term" -> {"Plus", "Minus"}
      [] name = "parse_factor" -> {"Star", "Slash", "Percent"}

\* A call of the function Chain[k] (parse_unary for k = 0): the calls nest
\* down to parse_unary before any token is consumed, so the result is that
\* of parse_unary taken up through what each function does after its first
\* inner call returned.
ParseAt(p, k) == Climb(parse_unary(p), 1, k)

parse_expr(p) == ParseAt(p, Rank("parse_comma_expr"))

parse_assignment(p) == ParseAt(p, Rank("parse_assignment"))

\* `let x = self.parse_expr()?;`
then_expr(r) == IF r.ok THEN Bind(r.v, parse_expr(r.p), TRUE) ELSE r

\* ExprKind::BinOp(left, token.kind, right?) with right what the call for the
\* right operand returned.
binary(tok, left, right) ==
    IF right.ok
    THEN Ok(BinOp(tok.line, left, tok.kind, right.v), right.p)
    ELSE right

\* The next turn of the loop after r, the tree of the last one.
fold_next(r, k) == IF r.ok THEN fold_expression_type(r.p, r.v, k) ELSE r

\* One turn of the while loop of parse_expression_type! in the function
\* Chain[k], with m what the matching() chain of its condition returned:
\* left is the tree folded so far, the right operand is parsed by $inner.
fold_matched(m, left, k) ==
    IF ~m.hit THEN Ok(left, m.p)
    ELSE fold_next(binary(m.p.previous_token, left, ParseAt(m.p, k - 1)), k)

fold_expression_type(p, left, k) ==
    fold_matched(matching_any(p, LevelTypes(Chain[k])), left, k)

\* parse_assignment after `let left = self.parse_ternary()?`.
assignment_matched(m, left) ==
    IF ~m.hit THEN Ok(left, m.p)
    ELSE binary(m.p.previous_token, left, parse_assignment(m.p))

assignment_rest(p, left) == assignment_matched(matching(p, "Equal"), left)

\* Expr::Ternary over the values bound by the arms of parse_ternary.
ternary_node(question_mark, condition, r) ==
    IF r.ok
    THEN Ok(Ternary(question_mark.line, condition, r.v[1], r.v[2]), r.p)
    ELSE r

\* parse_ternary after `let condition = self.parse_logical_or()?`.
ternary_matched(m, condition) ==
    IF ~m.hit THEN Ok(condition, m.p)
    ELSE ternary_node(m.p.previous_token, condition,
             then_expr(then_require(then_expr(Ok(<<>>, m.p)), "Colon",
                                    "expected ':' in ternary expression")))

ternary_rest(p, condition) == ternary_matched(matching(p, "QuestionMark"), condition)

\* What the function Chain[j] does once its first inner call returned Ok.
Rest(r, j) ==
    IF Chain[j] = "parse_assignment" THEN assignment_rest(r.p, r.v)
    ELSE IF Chain[j] = "parse_ternary" THEN ternary_rest(r.p, r.v)
    ELSE fold_expression_type(r.p, r.v, j)

\* r is the result of Chain[j - 1]; the result of Chain[k].  An Err is
\* returned through every caller by `?`.
Climb(r, j, k) ==
    IF j > k THEN r
    ELSE IF r.ok THEN Climb(Rest(r, j), j + 1, k)
    ELSE r

UnaryKinds == {"Minus", "Plus", "Ampersand", "Star", "Bang", "Tilda",
               "PlusPlus", "MinusMinus"}

\* ExprKind::UnaryOp(token.kind, false, expr?) with expr what the recursive call returned.
unary_node(tok, expr) ==
    IF expr.ok
    THEN Ok(UnaryOp(tok.line, tok.kind, FALSE, expr.v), expr.p)
    ELSE expr

\* parse_unary with m what the matching() chain returned.
unary_matched(m) ==
    IF m.hit THEN unary_node(m.p.previous_token, parse_unary(m.p))
    ELSE parse_primary(m.p)

parse_unary(p) == unary_matched(matching_any(p, UnaryKinds))

\* parse_primary after the match: expr is what an arm returned.
primary_postfix(expr) ==
    IF expr.ok
    THEN continue_parse_postfix(expr.p, expr.v)
    ELSE expr

\* parse_primary with p1 the parser after the advance() of a matching()
\* that hits.
primary_arms(p, p1) ==
    IF check(p, "IntLiteral")
    THEN IF parse_i32(p1.previous_token.data).ok
         THEN Ok(IntLit(p1.previous_token.line, parse_i32(p1.previous_token.data).num),
                 p1)
         ELSE error_at_current(p1, parse_i32(p1.previous_token.data).msg)
    ELSE IF check(p, "Identifier")
    THEN Ok(Var(p1.previous_token.line, p1.previous_token.data), p1)
    ELSE IF check(p, "LeftParen")
    THEN then_require(parse_expr(p1), "RightParen", "expected ')' after expression")
    ELSE error_at_current(p, "expected expression")

parse_primary(p) == primary_postfix(primary_arms(p, advance(p)))

\* The word size the indexing desugaring multiplies by.
WordSize == 4

\* Indexing that adds the index to the base without scaling it by the
\* word size.
index_node_unscaled(tok, expr, index) ==
    UnaryOp(tok.line, "Star", FALSE, BinOp(tok.line, expr, "Plus", index))

\* The tree the LeftBrace arm of continue_parse_postfix assigns to res.
index_node(tok, expr, index) ==
    UnaryOp(tok.line, "Star", FALSE,
        BinOp(tok.line, expr, "Plus",
            BinOp(tok.line, index, "Star", IntLit(tok.line, WordSize))))

\* The LeftBrace arm with index what parse_expr and the require of `]`
\* returned.
postfix_index(tok, expr, index) ==
    IF index.ok
    THEN continue_parse_postfix(index.p, index_node(tok, expr, index.v))
    ELSE index

\* One turn of the while loop of continue_parse_postfix with m what the
\* matching() chain of its condition returned.
postfix_matched(m, expr) ==
    IF ~m.hit THEN Ok(expr, m.p)
    ELSE IF m.p.previous_token.kind = "LeftBrace"
    THEN postfix_index(m.p.previous_token, expr,
             then_require(parse_expr(m.p), "RightBrace", "expected ']' after index"))
    ELSE continue_parse_postfix(m.p,
             UnaryOp(m.p.previous_token.line, m.p.previous_token.kind, TRUE, expr))

continue_parse_postfix(p, expr) ==
    postfix_matched(matching_any(p, {"PlusPlus", "MinusMinus", "LeftBrace"}), expr)

(***************************************************************************)
(* Statements and declarations (parser.rs 100-194, 341-515).               *)
(***************************************************************************)
SyncStmtKinds == {"KeywordReturn", "KeywordExtern", "KeywordWhile", "KeywordDo",
                  "KeywordIf"}

\* The while loop of synchronize_stmt; skipped is what was consumed so far.
RECURSIVE sync_stmt_loop(_, _)
sync_stmt_loop(p, skipped) ==
    IF p_is_at_end(p)
       \/ p.previous_token.kind = "Semicolon"
       \/ p.current_token.kind \in SyncStmtKinds
    THEN [p EXCEPT !.sync = Append(p.sync,
                     [level |-> "stmt", skipped |-> skipped,
                      stop |-> p.current_token.kind])]
    ELSE sync_stmt_loop(advance(p), Append(skipped, p.current_token.kind))

synchronize_stmt(p) == sync_stmt_loop(advance(p), <<p.current_token.kind>>)

RECURSIVE sync_decl_loop(_, _)
sync_decl_loop(p, skipped) ==
    IF p_is_at_end(p) \/ p.current_token.kind = "Identifier"
    THEN [p EXCEPT !.sync = Append(p.sync,
                     [level |-> "decl", skipped |-> skipped,
                      stop |-> p.current_token.kind])]
    ELSE sync_decl_loop(advance(p), Append(skipped, p.current_token.kind))

synchronize_decl_in_place(p) == sync_decl_loop(p, <<>>)

synchronize_decl(p) == sync_decl_loop(advance(p), <<p.current_token.kind>>)

\* `let x = self.parse_stmt()?;`
then_stmt(r) == IF r.ok THEN Bind(r.v, parse_stmt(r.p), TRUE) ELSE r

\* `let body = self.parse_block_stmt()?;`
then_block(r) == IF r.ok THEN Bind(r.v, parse_block_stmt(r.p), TRUE) ELSE r

\* One turn of the `while self.matching(Comma)` loop of parse_parameters,
\* with m what the matching() returned: what is pushed is the lexeme of the
\* token just consumed.
parameters_matched(m, params) ==
    IF m.hit THEN parameters_loop(m.p, Append(params, m.p.previous_token.data))
    ELSE Ok(params, m.p)

parameters_loop(p, params) == parameters_matched(matching(p, "Comma"), params)

\* `if !self.matching(RightParen) { loop; }` with m what it returned.
parameters_list(m) ==
    IF m.hit THEN Ok(<<>>, m.p)
    ELSE parameters_loop(m.p, <<m.p.previous_token.data>>)

\* parse_parameters after its first require.
parameters_open(open) ==
    IF open.ok
    THEN then_require(parameters_list(matching(open.p, "RightParen")),
                      "RightParen", "expected ')' after function parameters")
    ELSE open

parse_parameters(p) ==
    parameters_open(require(p, "LeftParen", "expected '(' before function parameters"))

\* Decl::Function over the values bound by continue_parse_fn.
function_node(name, r) ==
    IF r.ok
    THEN Ok(Function(name.line, name.data, r.v[1], r.v[2]), r.p)
    ELSE r

continue_parse_fn(p, name) ==
    function_node(name,
        then_block(then_require(Bind(<<>>, parse_parameters(p), TRUE),
                                "LeftBracket", "expected '{' before function body")))

\* The match on count_token.data.parse::<i32>(), r holding count_token.
count_value(r) ==
    IF r.ok
    THEN IF parse_i32(r.v[1].data).ok
         THEN Ok(<<parse_i32(r.v[1].data).num>>, r.p)
         ELSE error_at_current(r.p, parse_i32(r.v[1].data).msg)
    ELSE r

\* `let count = if self.matching(LeftBrace) {..} else {1};` with m what the
\* matching() returned.
var_count(m) ==
    IF ~m.hit THEN Ok(<<1>>, m.p)
    ELSE count_value(
             then_require(then_token(Ok(<<>>, m.p), "IntLiteral", "expected size of array"),
                          "RightBrace", "expected ']' after array size"))

\* `let initial = if self.matching(Semicolon) {None} else {Some(..)};` with
\* m what the matching() returned; vs holds the count.
initial_matched(vs, m) ==
    IF m.hit THEN Ok(vs, m.p)
    ELSE then_require(then_expr(Ok(vs, m.p)), "Semicolon",
                      "expected ';' at the end of declaration")

var_initial(count) ==
    IF count.ok
    THEN initial_matched(count.v, matching(count.p, "Semicolon"))
    ELSE count

\* Decl::Data over the count and the optional initial value.
data_node(name, r) ==
    IF r.ok
    THEN Ok(Data(name.line, name.data, r.v[1], Tail(r.v)), r.p)
    ELSE r

continue_parse_var(p, name) ==
    data_node(name, var_initial(var_count(matching(p, "LeftBrace"))))

\* parse_decl after the name, with paren what matching(LeftParen) returned.
decl_kind(name, paren) ==
    IF paren.hit THEN continue_parse_fn(paren.p, name)
    ELSE continue_parse_var(paren.p, name)

\* parse_decl with m what matching(Identifier) returned.
decl_named(m) ==
    IF m.hit THEN decl_kind(m.p.previous_token, matching(m.p, "LeftParen"))
    ELSE error_at_current(m.p, "expected declaration")

parse_decl(p) == decl_named(matching(p, "Identifier"))

\* The match of parse_auto_stmt over what continue_parse_fn returned.
auto_node(var) ==
    IF var.ok
    THEN IF var.v.kind = "Data"
    THEN Ok(Stmt("Auto", var.v.pos, var.v.name, var.v.count, var.v.initial, <<>>),
            var.p)
    ELSE Panic(var.p)
    ELSE var

auto_named(name) ==
    IF name.ok
    THEN auto_node(continue_parse_fn(name.p, name.v))
    ELSE name

parse_auto_stmt(p) == auto_named(require(p, "Identifier", "expected variable name"))

extern_node(tok, r) ==
    IF r.ok
    THEN Ok(Stmt("Extern", tok.line, r.v[1].data, 0, <<>>, <<>>), r.p)
    ELSE r

parse_extern_stmt(p) ==
    extern_node(p.previous_token,
        then_require(then_token(Ok(<<>>, p), "Identifier", "expected identifier"),
                     "Semicolon", "expected ';' after extern statement"))

\* Stmt::Return over the optional value bound by parse_return_stmt.
return_node(return_keyword, r) ==
    IF r.ok
    THEN Ok(Stmt("Return", return_keyword.line, <<>>, 0, r.v, <<>>), r.p)
    ELSE r

\* parse_return_stmt with m what matching(Semicolon) returned.
return_matched(return_keyword, m) ==
    return_node(return_keyword,
        IF m.hit THEN Ok(<<>>, m.p)
        ELSE then_require(then_expr(Ok(<<>>, m.p)), "Semicolon",
                          "expected ';' after return statement"))

parse_return_stmt(p) == return_matched(p.previous_token, matching(p, "Semicolon"))

expr_stmt_node(r) ==
    IF r.ok
    THEN Ok(Stmt("Expr", r.v[1].pos, <<>>, 0, r.v, <<>>), r.p)
    ELSE r

parse_expr_stmt(p) ==
    expr_stmt_node(then_require(then_expr(Ok(<<>>, p)), "Semicolon",
                                "expected ';' after expression statement"))

\* Stmt::Break and Stmt::Continue.
keyword_node(kind, tok, r) ==
    IF r.ok
    THEN Ok(Stmt(kind, tok.line, <<>>, 0, <<>>, <<>>), r.p)
    ELSE r

parse_break_stmt(p) ==
    keyword_node("Break", p.previous_token,
        then_require(Ok(<<>>, p), "Semicolon", "expected ';' after break statement"))

parse_continue_stmt(p) ==
    keyword_node("Continue", p.previous_token,
        then_require(Ok(<<>>, p), "Semicolon", "expected ';' after continue statement"))

\* `(` condition `)` as required by if, while and do.
then_condition(r, before, after) ==
    then_require(then_expr(then_require(r, "LeftParen", before)), "RightParen", after)

\* Stmt::If over the condition, the then arm and the optional else arm.
if_node(if_keyword, r) ==
    IF r.ok
    THEN Ok(Stmt("If", if_keyword.line, <<>>, 0, <<r.v[1]>>, Tail(r.v)), r.p)
    ELSE r

\* `let else_arm = if self.matching(KeywordElse) {Some(..)} else {None};`
\* with m what the matching() returned.
else_matched(vs, m) == IF m.hit THEN then_stmt(Ok(vs, m.p)) ELSE Ok(vs, m.p)

if_else(r) ==
    IF r.ok
    THEN else_matched(r.v, matching(r.p, "KeywordElse"))
    ELSE r

parse_if_stmt(p) ==
    if_node(p.previous_token,
        if_else(then_stmt(then_condition(Ok(<<>>, p),
                              "expected '(' before if condition",
                              "expected ')' after if condition"))))

while_node(while_token, r) ==
    IF r.ok
    THEN Ok(Stmt("While", while_token.line, <<>>, 0, <<r.v[1]>>, <<r.v[2]>>), r.p)
    ELSE r

parse_while_stmt(p) ==
    while_node(p.previous_token,
        then_stmt(then_condition(Ok(<<>>, p),
                      "expected '(' before while loop condition",
                      "expected ')' after while loop condition")))

do_node(do_token, r) ==
    IF r.ok
    THEN Ok(Stmt("DoWhile", do_token.line, <<>>, 0, <<r.v[2]>>, <<r.v[1]>>), r.p)
    ELSE r

parse_do_stmt(p) ==
    do_node(p.previous_token,
        then_require(then_condition(then_stmt(Ok(<<>>, p)),
                         "expected '(' before do loop condition",
                         "expected ')' after do loop condition"),
                     "Semicolon", "expected ';' after do loop condition"))

\* The `if self.matching(..) {..} else if ..` chain of parse_stmt, with p1
\* the parser after the advance() of the matching() that hits.
stmt_arms(p, p1) ==
    CASE check(p, "LeftBracket") -> parse_block_stmt(p1)
      [] check(p, "KeywordReturn") -> parse_return_stmt(p1)
      [] check(p, "KeywordIf") -> parse_if_stmt(p1)
      [] check(p, "KeywordAuto") -> parse_auto_stmt(p1)
      [] check(p, "KeywordExtern") -> parse_extern_stmt(p1)
      [] check(p, "KeywordWhile") -> parse_while_stmt(p1)
      [] check(p, "KeywordDo") -> parse_do_stmt(p1)
      [] check(p, "KeywordBreak") -> parse_break_stmt(p1)
      [] check(p, "KeywordContinue") -> parse_continue_stmt(p1)
      [] OTHER -> parse_expr_stmt(p)

parse_stmt(p) == stmt_arms(p, advance(p))

\* The body of the while loop of parse_block_stmt with r what parse_stmt
\* returned.  A panic unwinds through the loop instead of being recovered.
\* The end of one turn of the loop of parse_block_stmt, kept in turns: where
\* the current token began when the turn started and where it begins now.
turn(p, from) ==
    [p EXCEPT !.turns = Append(p.turns, [from |-> from, to |-> p.scanner.start])]

\* The match of the loop over r, what parse_stmt returned; from is where the
\* current token began before the call.
block_stmt(r, stmts, from) ==
    IF r.ok THEN block_loop(turn(r.p, from), Append(stmts, r.v))
    ELSE IF r.p.panicked THEN [p |-> r.p, stmts |-> stmts, closed |-> FALSE]
    ELSE block_loop(turn(synchronize_stmt(report_error(r.p, r.e)), from), stmts)

\* The condition of the loop with m what matching(RightBracket) returned;
\* closed tells whether the loop ended because this matching() took a `}`.
block_matched(m, stmts) ==
    IF m.hit THEN [p |-> m.p, stmts |-> stmts, closed |-> TRUE]
    ELSE block_stmt(parse_stmt(m.p), stmts, m.p.scanner.start)

\* The while loop of parse_block_stmt; stmts is the vector filled so far.
block_loop(p, stmts) ==
    IF p_is_at_end(p) THEN [p |-> p, stmts |-> stmts, closed |-> FALSE]
    ELSE block_matched(matching(p, "RightBracket"), stmts)

\* A return of parse_block_stmt, kept in blocks: whether it returned Ok and
\* whether its loop took the closing `}`.
block_returned(l, ok) ==
    [l.p EXCEPT !.blocks = Append(l.p.blocks, [ok |-> ok, closed |-> l.closed])]

\* parse_block_stmt after its loop, l.
block_node(left_bracket, l) ==
    IF l.p.panicked THEN Panic(l.p)
    ELSE IF l.p.previous_token.kind # "RightBracket"
    THEN error_at_current(block_returned(l, FALSE), "expected '}'")
    ELSE Ok(Stmt("Block", left_bracket.line, <<>>, 0, <<>>, l.stmts),
            block_returned(l, TRUE))

parse_block_stmt(p) == block_node(p.previous_token, block_loop(p, <<>>))

\* The match of the while loop of parse() over r, what parse_decl returned;
\* decls is the vector filled so far.
decl_result(r, decls) ==
    IF r.ok THEN [p |-> r.p, decls |-> Append(decls, r.v)]
    ELSE IF r.p.panicked THEN [p |-> r.p, decls |-> decls]
    ELSE [p |-> synchronize_decl(report_error(r.p, r.e)), decls |-> decls]

\* One iteration of the while loop of parse().
parse_iteration(p, decls) == decl_result(parse_decl(p), decls)

(***************************************************************************)
(* Validator (validator.rs): had_error, global_data, local_data,           *)
(* loop_count.  out is the sequence of errors handed to report_error, and  *)
(* visited is the history of the validate_stmt and validate_expr calls:    *)
(* the node each call was given, and loop_count and local_data on entry.   *)
(***************************************************************************)
Validator_new ==
    [had_error |-> FALSE, global_data |-> <<>>, local_data |-> <<>>,
     loop_count |-> 0, out |-> <<>>, visited |-> <<>>]

Contains(vec, x) == \E i \in DOMAIN vec : vec[i] = x

v_error(v, pos, msg, name) ==
    [v EXCEPT !.had_error = TRUE,
              !.out = Append(v.out, [line |-> pos, msg |-> msg, name |-> name])]

clear_error_only(v) == [v EXCEPT !.had_error = FALSE]

clear(v) == [v EXCEPT !.had_error = FALSE, !.local_data = <<>>]

add_global(v, name, err_pos) ==
    IF Contains(v.global_data, name)
    THEN v_error(v, err_pos, "redefinition of global", name)
    ELSE [v EXCEPT !.global_data = Append(v.global_data, name)]

add_local_shadowing(v, name, err_pos) ==
    [v EXCEPT !.local_data = Append(v.local_data, name)]

add_local(v, name, err_pos) ==
    IF Contains(v.local_data, name)
    THEN v_error(v, err_pos, "redefinition of local", name)
    ELSE [v EXCEPT !.local_data = Append(v.local_data, name)]

add_locals_skipped(v, names, err_pos) == v

\* The loop over the parameters of a function.
RECURSIVE add_locals(_, _, _)
add_locals(v, names, err_pos) ==
    IF names = <<>> THEN v
    ELSE add_locals(add_local(v, Head(names), err_pos), Tail(names), err_pos)

validate_iexpr(v, expr) ==
    IF expr = <<>> THEN v
    ELSE IF expr[1].kind \in {"IntLit", "StringLit"} THEN v
    ELSE v_error(v, expr[1].pos,
                 "only integer or string literals are allowed to be iexpr", <<>>)

\* Entry of validate_stmt or validate_expr with the given node.
visit(v, node) ==
    [v EXCEPT !.visited = Append(v.visited,
                                 [node |-> node, loop_count |-> v.loop_count,
                                  local_data |-> v.local_data])]

RECURSIVE validate_expr(_, _), validate_exprs(_, _)
validate_expr(v, expr) ==
    CASE expr.kind \in {"IntLit", "StringLit"} -> visit(v, expr)
      [] expr.kind = "Var" ->
            IF ~Contains(v.local_data, expr.name)
            THEN v_error(visit(v, expr), expr.pos, "undefinded reference to",
                         expr.name)
            ELSE visit(v, expr)
      [] OTHER -> validate_exprs(visit(v, expr), expr.kids)

\* The operands of a unary, binary or ternary node, left to right; also an
\* Option<Expr>.
validate_exprs(v, exprs) ==
    IF exprs = <<>> THEN v
    ELSE validate_exprs(validate_expr(v, Head(exprs)), Tail(exprs))

\* self.loop_count += 1 and self.loop_count -= 1 around a loop body.
enter_loop(v) == [v EXCEPT !.loop_count = v.loop_count + 1]

leave_loop_skipped(v) == v

leave_loop(v) == [v EXCEPT !.loop_count = v.loop_count - 1]

\* The arms of the match in validate_stmt.
RECURSIVE stmt_kind_arms(_, _), validate_stmts(_, _)
stmt_kind_arms(v, stmt) ==
    CASE stmt.kind = "Auto" ->
            validate_iexpr(add_local(v, stmt.name, stmt.pos), stmt.expr)
      [] stmt.kind = "Extern" -> add_local(v, stmt.name, stmt.pos)
      [] stmt.kind = "Expr" -> validate_exprs(v, stmt.expr)
      [] stmt.kind = "Block" -> validate_stmts(v, stmt.kids)
      [] stmt.kind = "Break" ->
            IF v.loop_count = 0
            THEN v_error(v, stmt.pos, "break statement appeared outside of loop", <<>>)
            ELSE v
      [] stmt.kind = "Continue" ->
            IF v.loop_count = 0
            THEN v_error(v, stmt.pos, "continue statement appeared outside of loop",
                         <<>>)
            ELSE v
      [] stmt.kind = "While" ->
            leave_loop(validate_stmts(enter_loop(validate_exprs(v, stmt.expr)),
                                      stmt.kids))
      [] stmt.kind = "DoWhile" ->
            validate_exprs(leave_loop(validate_stmts(enter_loop(v), stmt.kids)),
                           stmt.expr)
      [] stmt.kind = "If" -> validate_stmts(validate_exprs(v, stmt.expr), stmt.kids)
      [] stmt.kind = "Return" -> validate_exprs(v, stmt.expr)

validate_stmt(v, stmt) == stmt_kind_arms(visit(v, stmt), stmt)

\* The statements of a block in order; also the arms of an if and the
\* optional body of a while.
validate_stmts(v, stmts) ==
    IF stmts = <<>> THEN v
    ELSE validate_stmts(validate_stmt(v, Head(stmts)), Tail(stmts))

\* Returns [ret, v]: the bool returned and the validator after the call.
validate_one_decl(v, decl) ==
    LET v1 == IF decl.kind = "Function"
              THEN validate_stmts(
                       add_locals(add_global(v, decl.name, decl.pos),
                                  decl.params, decl.pos),
                       decl.body)
              ELSE validate_iexpr(add_global(v, decl.name, decl.pos), decl.initial)
        old_error == v1.had_error
    IN [ret |-> old_error, v |-> clear(v1)]

(***************************************************************************)
(* Source texts.  Str builds a file from words; the scanner inputs are all *)
(* files of at most MaxScanLen bytes over ScanAlphabet, and the keyword    *)
(* set with its near misses.                                               *)
(***************************************************************************)
RECURSIVE Cat(_)
Cat(ws) == IF ws = <<>> THEN <<>> ELSE Head(ws) \o Cat(Tail(ws))

RECURSIVE Words(_)
Words(ws) ==
    IF ws = <<>> THEN <<>>
    ELSE IF Len(ws) = 1 THEN Head(ws)
    ELSE Head(ws) \o <<" ">> \o Words(Tail(ws))

ScanAlphabet == {"i", "f", "d", "o", "5", "-", " ", "\n", "\"", "'", "#"}

RECURSIVE FilesUpTo(_)
FilesUpTo(n) ==
    IF n = 0 THEN {<<>>}
    ELSE LET shorter == FilesUpTo(n - 1)
         IN shorter \cup {Append(f, c) : f \in {g \in shorter : Len(g) = n - 1},
                                         c \in ScanAlphabet}

KwIf == <<"i", "f">>
KwReturn == <<"r", "e", "t", "u", "r", "n">>
KwElse == <<"e", "l", "s", "e">>
KwExtern == <<"e", "x", "t", "e", "r", "n">>
KwWhile == <<"w", "h", "i", "l", "e">>
KwDo == <<"d", "o">>
KwBreak == <<"b", "r", "e", "a", "k">>
KwContinue == <<"c", "o", "n", "t", "i", "n", "u", "e">>
KwAuto == <<"a", "u", "t", "o">>

\* The keyword a keyword token kind stands for.
KeywordOf(kind) ==
    CASE kind = "KeywordIf" -> KwIf
      [] kind = "KeywordReturn" -> KwReturn
      [] kind = "KeywordElse" -> KwElse
      [] kind = "KeywordExtern" -> KwExtern
      [] kind = "KeywordWhile" -> KwWhile
      [] kind = "KeywordDo" -> KwDo
      [] kind = "KeywordBreak" -> KwBreak
      [] kind = "KeywordContinue" -> KwContinue
      [] kind = "KeywordAuto" -> KwAuto
      [] OTHER -> <<>>

KeywordKinds == {"KeywordIf", "KeywordReturn", "KeywordElse", "KeywordExtern",
                 "KeywordWhile", "KeywordDo", "KeywordBreak", "KeywordContinue",
                 "KeywordAuto"}

Keywords == {KeywordOf(k) : k \in KeywordKinds}

\* Every keyword, every proper prefix of one, and every keyword extended by
\* a letter, a digit or an underscore, alone and followed by more text.
WordFiles ==
    LET exts == {<<>>, <<"f", "y">>, <<"x">>, <<"1">>, <<"_">>, <<"u", "b", "l", "e">>,
                 <<"m", "a", "t", "i", "c">>}
        pre == UNION {{SubSeq(k, 1, n) : n \in 1..Len(k)} : k \in Keywords}
        lex == {k \o e : k \in Keywords, e \in exts} \cup pre
    IN lex \cup {l \o <<" ", "f">> : l \in lex} \cup {l \o <<"(">> : l \in lex}

MinusFiles ==
    {<<"a", "-", "5">>, <<"a", " ", "-", " ", "5">>, <<"a", "-", "-", "5">>,
     <<"-", "5", "2", "-", "7">>, <<"a", "-", " ", "5">>, <<"1", "-", "5", "5", ";">>}

ScanFiles == FilesUpTo(MaxScanLen) \cup WordFiles \cup MinusFiles

(***************************************************************************)
(* Parser inputs.  A text is a sequence of lexemes, written to the file    *)
(* with one space between them (Words).  Every family below is a set of    *)
(* files; ParseFiles is their union.                                       *)
(***************************************************************************)
X == <<"x">>

Semi == <<";">>

\* The binary operators: lexeme, token kind, and level in the precedence
\* ladder of the language, lowest binding first.
BinOps ==
    { [lex |-> <<",">>, kind |-> "Comma", level |-> 1],
      [lex |-> <<"=">>, kind |-> "Equal", level |-> 2],
      [lex |-> <<"|", "|">>, kind |-> "BarBar", level |-> 4],
      [lex |-> <<"&", "&">>, kind |-> "AmpersandAmpersand", level |-> 5],
      [lex |-> <<"|">>, kind |-> "Bar", level |-> 6],
      [lex |-> <<"^">>, kind |-> "UpArrow", level |-> 7],
      [lex |-> <<"&">>, kind |-> "Ampersand", level |-> 8],
      [lex |-> <<"=", "=">>, kind |-> "EqualEqual", level |-> 9],
      [lex |-> <<"!", "=">>, kind |-> "BangEqual", level |-> 9],
      [lex |-> <<">">>, kind |-> "Greater", level |-> 10],
      [lex |-> <<"<">>, kind |-> "Less", level |-> 10],
      [lex |-> <<">", "=">>, kind |-> "GreaterEqual", level |-> 10],
      [lex |-> <<"<", "=">>, kind |-> "LessEqual", level |-> 10],
      [lex |-> <<">", ">">>, kind |-> "GreaterGreater", level |-> 11],
      [lex |-> <<"<", "<">>, kind |-> "LessLess", level |-> 11],
      [lex |-> <<"+">>, kind |-> "Plus", level |-> 12],
      [lex |-> <<"-">>, kind |-> "Minus", level |-> 12],
      [lex |-> <<"*">>, kind |-> "Star", level |-> 13],
      [lex |-> <<"/">>, kind |-> "Slash", level |-> 13],
      [lex |-> <<"%">>, kind |-> "Percent", level |-> 13] }

\* `x 1 o1 2 o2 3 ;`: a data declaration whose initializer has two binary
\* operators.
PrecFile(o1, o2) == Words(<<X, <<"1">>, o1.lex, <<"2">>, o2.lex, <<"3">>, Semi>>)

PrecFiles == {PrecFile(o1, o2) : o1 \in BinOps, o2 \in BinOps}

\* Primary expressions and index expressions: the lexemes, the tree the
\* expression stands for, and whether it is a primary.
VarA == Var(1, <<"a">>)

VarB == Var(1, <<"b">>)

Deref(e, i) ==
    UnaryOp(1, "Star", FALSE, BinOp(1, e, "Plus", BinOp(1, i, "Star", IntLit(1, 4))))

Primaries ==
    { [text |-> <<<<"a">>>>, tree |-> VarA],
      [text |-> <<<<"7">>>>, tree |-> IntLit(1, 7)],
      [text |-> <<<<"(">>, <<"a">>, <<"+">>, <<"b">>, <<")">>>>,
       tree |-> BinOp(1, VarA, "Plus", VarB)],
      [text |-> <<<<"a">>, <<"[">>, <<"1">>, <<"]">>>>,
       tree |-> Deref(VarA, IntLit(1, 1))] }

Indexes ==
    { [text |-> <<<<"b">>>>, tree |-> VarB, primary |-> TRUE],
      [text |-> <<<<"2">>>>, tree |-> IntLit(1, 2), primary |-> TRUE],
      [text |-> <<<<"(">>, <<"b">>, <<")">>>>, tree |-> VarB, primary |-> TRUE],
      [text |-> <<<<"b">>, <<"[">>, <<"a">>, <<"]">>>>,
       tree |-> Deref(VarB, VarA), primary |-> TRUE],
      [text |-> <<<<"-">>, <<"b">>>>, tree |-> UnaryOp(1, "Minus", FALSE, VarB),
       primary |-> FALSE],
      [text |-> <<<<"b">>, <<"+">>, <<"1">>>>,
       tree |-> BinOp(1, VarB, "Plus", IntLit(1, 1)), primary |-> FALSE],
      [text |-> <<<<"b">>, <<",">>, <<"a">>>>,
       tree |-> BinOp(1, VarB, "Comma", VarA), primary |-> FALSE],
      [text |-> <<<<"b">>, <<"=">>, <<"a">>>>,
       tree |-> BinOp(1, VarB, "Equal", VarA), primary |-> FALSE] }

\* `x[2] <expression> ;`: a data declaration with the expression as its
\* initializer.
ExprFile(text) == Words(<<X, <<"[">>, <<"2">>, <<"]">>>> \o text \o <<Semi>>)

\* e[i]
IndexFile(e, i) == ExprFile(e.text \o <<<<"[">>>> \o i.text \o <<<<"]">>>>)

\* e[i] with the `[` on the next line.
IndexFileNl(e, i) ==
    Words(<<X, <<"[">>, <<"2">>, <<"]">>>> \o e.text)
        \o <<"\n">> \o Words(<<<<"[">>>> \o i.text \o <<<<"]">>, Semi>>)

\* *(e + (i) * 4)
DerefFile(e, i) ==
    ExprFile(<<<<"*">>, <<"(">>>> \o e.text \o <<<<"+">>, <<"(">>>> \o i.text
             \o <<<<")">>, <<"*">>, <<"4">>, <<")">>>>)

\* *(e + i * 4)
PlainDerefFile(e, i) ==
    ExprFile(<<<<"*">>, <<"(">>>> \o e.text \o <<<<"+">>>> \o i.text
             \o <<<<"*">>, <<"4">>, <<")">>>>)

IndexFiles ==
    UNION {{IndexFile(e, i), IndexFileNl(e, i), DerefFile(e, i), PlainDerefFile(e, i)} :
           e \in Primaries, i \in Indexes}

RECURSIVE SeqsUpTo(_, _)
SeqsUpTo(S, n) ==
    IF n = 0 THEN {<<>>}
    ELSE LET shorter == SeqsUpTo(S, n - 1)
         IN shorter \cup {Append(q, x) : q \in {r \in shorter : Len(r) = n - 1},
                                         x \in S}

\* Function inputs.  Header is the header of the language, name ( p1 , ... ,
\* pn ); DoubledHeader is name ( ( ) ), which gives parse_decl and
\* parse_parameters one `(` each and parse_parameters its two `)`.
F == <<"f">>

G == <<"g">>

LParen == <<"(">>

RParen == <<")">>

LCurly == <<"{">>

RCurly == <<"}">>

RECURSIVE Separated(_)
Separated(ps) ==
    IF Len(ps) <= 1 THEN ps ELSE <<Head(ps), <<",">>>> \o Separated(Tail(ps))

Header(name, params) == <<name, LParen>> \o Separated(params) \o <<RParen>>

DoubledHeader(name) == <<name, LParen, LParen, RParen, RParen>>

Hdr(name, doubled) == IF doubled THEN DoubledHeader(name) ELSE Header(name, <<>>)

ReturnStmt == Stmt("Return", 1, <<>>, 0, <<>>, <<>>)

\* Function bodies: the lexemes and the statements they stand for.
Bodies ==
    { [text |-> <<>>, tree |-> <<>>],
      [text |-> <<KwReturn, Semi>>, tree |-> <<ReturnStmt>>],
      [text |-> <<<<"a">>, Semi, KwReturn, Semi>>,
       tree |-> <<Stmt("Expr", 1, <<>>, 0, <<VarA>>, <<>>), ReturnStmt>>] }

MaxParams == 2

ParamLists == SeqsUpTo({<<"a">>, <<"b">>}, MaxParams)

\* f ( p1 , ... , pn ) { statements }
FnFile(params, body) == Words(Header(F, params) \o <<LCurly>> \o body.text \o <<RCurly>>)

FnFiles == {FnFile(ps, b) : ps \in ParamLists, b \in Bodies}

\* f ( ( ) ) { statements }
DoubledFnFile(body) == Words(DoubledHeader(F) \o <<LCurly>> \o body.text \o <<RCurly>>)

DoubledFnFiles == {DoubledFnFile(b) : b \in Bodies}

\* A broken function f: without its `}`, without its `{`, without the `)`
\* that ends its header.
BrokenFns(doubled) ==
    LET h == Hdr(F, doubled) IN
    { h \o <<LCurly, KwReturn, Semi>>,
      h \o <<LCurly>>,
      h \o <<KwReturn, Semi, RCurly>>,
      SubSeq(h, 1, Len(h) - 1) \o <<LCurly, RCurly>> }

\* A broken function f followed by the well-formed function g.
TwoFnFile(broken, doubled) == Words(broken \o Hdr(G, doubled) \o <<LCurly, RCurly>>)

TwoFnFiles == {TwoFnFile(b, d) : b \in BrokenFns(TRUE), d \in {TRUE}}
                  \cup {TwoFnFile(b, d) : b \in BrokenFns(FALSE), d \in {FALSE}}

\* Malformed statements.
Malformed ==
    { <<<<"1">>>>,
      <<<<"a">>, <<"=">>, <<"b">>>>,
      <<<<"1">>, <<"2">>>>,
      <<<<"1">>, <<"+">>, Semi>>,
      <<<<"a">>, <<"b">>, Semi>>,
      <<RParen, Semi>>,
      <<KwIf, Semi>>,
      <<KwBreak>>,
      <<KwExtern, Semi>> }

\* f ( ( ) ) { m return ; }
RecoverFile(m) == Words(DoubledHeader(F) \o <<LCurly>> \o m \o <<KwReturn, Semi, RCurly>>)

RecoverFiles == {RecoverFile(m) : m \in Malformed}

\* Identifier, optional [ IntLiteral ], optional initializer, `;`.
VarTexts ==
    { <<X, Semi>>,
      <<X, <<"5">>, Semi>>,
      <<X, <<"[">>, <<"3">>, <<"]">>, Semi>>,
      <<X, <<"[">>, <<"3">>, <<"]">>, <<"5">>, Semi>>,
      <<X, <<"a">>, <<"+">>, <<"1">>, Semi>> }

TopFile(t) == Words(t)

\* f ( ) { auto t } and f ( ( ) ) { auto t }
AutoFile(t, doubled) == Words(Hdr(F, doubled) \o <<LCurly, KwAuto>> \o t \o <<RCurly>>)

\* f ( ( ) ) { auto g ( ) ) { } }: what continue_parse_fn takes after the name.
AutoFnFile == Words(DoubledHeader(F) \o <<LCurly, KwAuto, G, LParen, RParen, RParen,
                                          LCurly, RCurly, RCurly>>)

AutoFiles ==
    {TopFile(t) : t \in VarTexts} \cup {AutoFile(t, d) : t \in VarTexts, d \in BOOLEAN}
        \cup {AutoFnFile}

\* Integer literals: the lexeme, whether parse::<i32> takes it, and its value.
I32MaxLex == <<"2", "1", "4", "7", "4", "8", "3", "6", "4", "7">>

Literals ==
    { [lex |-> <<"0">>, fits |-> TRUE, num |-> 0],
      [lex |-> <<"0", "0", "0", "0", "0", "0", "0", "0", "0", "0", "0", "1", "2">>,
       fits |-> TRUE, num |-> 12],
      [lex |-> <<"-", "5">>, fits |-> TRUE, num |-> -5],
      [lex |-> I32MaxLex, fits |-> TRUE, num |-> I32Max],
      [lex |-> <<"-">> \o SubSeq(I32MaxLex, 1, 9) \o <<"8">>, fits |-> TRUE,
       num |-> I32Min],
      [lex |-> SubSeq(I32MaxLex, 1, 9) \o <<"8">>, fits |-> FALSE, num |-> 0],
      [lex |-> <<"-">> \o SubSeq(I32MaxLex, 1, 9) \o <<"9">>, fits |-> FALSE, num |-> 0],
      [lex |-> <<"4", "2", "9", "4", "9", "6", "7", "2", "9", "6">>, fits |-> FALSE,
       num |-> 0],
      [lex |-> <<"4", "2", "9", "4", "9", "6", "7", "3", "0", "3">>, fits |-> FALSE,
       num |-> 0],
      [lex |-> <<"-", "9", "9", "9", "9", "9", "9", "9", "9", "9", "9", "9">>,
       fits |-> FALSE, num |-> 0],
      [lex |-> I32MaxLex \o <<"0">>, fits |-> FALSE, num |-> 0] }

Y == <<"y">>

\* x n ; y ;   x [ n ] ; y ;   x 1 + n ; y ;   f ( ( ) ) { n ; return ; }
LitContexts == {"initial", "count", "operand", "stmt"}

LitFile(n, ctx) ==
    CASE ctx = "initial" -> Words(<<X, n.lex, Semi, Y, Semi>>)
      [] ctx = "count" -> Words(<<X, <<"[">>, n.lex, <<"]">>, Semi, Y, Semi>>)
      [] ctx = "operand" -> Words(<<X, <<"1">>, <<"+">>, n.lex, Semi, Y, Semi>>)
      [] ctx = "stmt" -> Words(DoubledHeader(F) \o <<LCurly, n.lex, Semi, KwReturn, Semi,
                                                      RCurly>>)

LitFiles == {LitFile(n, ctx) : n \in Literals, ctx \in LitContexts}

\* Blocks inside the body of f ( ( ) ): closed, left open at the end of the
\* input, and with a malformed statement before the `}`.
BlockTexts ==
    { <<LCurly, LCurly, RCurly, RCurly>>,
      <<LCurly, LCurly, RCurly>>,
      <<LCurly, LCurly>>,
      <<LCurly, <<"a">>, Semi, LCurly>>,
      <<LCurly, RParen, RCurly>>,
      <<LCurly, RParen, Semi, RCurly, RParen>> }

BlockFile(t) == Words(DoubledHeader(F) \o t)

BlockFiles == {BlockFile(t) : t \in BlockTexts}

ParseFiles ==
    PrecFiles \cup IndexFiles \cup FnFiles \cup DoubledFnFiles \cup TwoFnFiles
        \cup RecoverFiles \cup AutoFiles \cup LitFiles \cup BlockFiles

(***************************************************************************)
(* The scanner driven by repeated next_token calls.  ncalls counts the     *)
(* calls; the cursor grows by one on every call made at the end of the     *)
(* file, so the calls are capped ExtraCalls past the length of the file.   *)
(***************************************************************************)
ExtraCalls == 3

NoToken == [kind |-> None, line |-> 0, data |-> <<>>]

NoParser == [scanner |-> Scanner_new(<<>>)]

\* Before read_file: no file is loaded yet.
InitRead ==
    /\ scanner = Scanner_new(<<>>)
    /\ token = NoToken
    /\ ncalls = 0
    /\ parser = NoParser
    /\ res = <<>>
    /\ validator = Validator_new
    /\ pending = <<>>
    /\ validated = <<>>
    /\ compiled = <<>>
    /\ pc = "read"

\* read_file and Scanner::new: the whole file is loaded before scanning.
ReadScanFile ==
    /\ pc = "read"
    /\ \E file \in ScanFiles : scanner' = Scanner_new(file)
    /\ pc' = "scan"
    /\ UNCHANGED <<scanVars, parseVars, driverVars>>

NextTokenCall ==
    /\ pc = "scan"
    /\ ncalls < Len(scanner.file) + ExtraCalls
    /\ \E r \in {next_token(scanner)} :
          /\ scanner' = r.sc
          /\ token' = r.tok
    /\ ncalls' = ncalls + 1
    /\ UNCHANGED <<parseVars, driverVars, pc>>

NextScan == ReadScanFile \/ NextTokenCall

SpecScan == InitRead /\ [][NextScan]_vars

(***************************************************************************)
(* Parser::new followed by parse(), one iteration of its loop per step.    *)
(* pc: "new" -> "parse" -> "done", or "panicked" when panic!() is reached. *)
(***************************************************************************)
ReadParseFile ==
    /\ pc = "read"
    /\ \E file \in ParseFiles : scanner' = Scanner_new(file)
    /\ pc' = "new"
    /\ UNCHANGED <<scanVars, parseVars, driverVars>>

NewParser ==
    /\ pc = "new"
    /\ parser' = Parser_new(scanner)
    /\ scanner' = parser'.scanner
    /\ pc' = "parse"
    /\ UNCHANGED <<scanVars, res, driverVars>>

ParseDeclStep ==
    /\ pc = "parse"
    /\ ~p_is_at_end(parser)
    /\ \E it \in {parse_iteration(parser, res)} :
          /\ parser' = it.p
          /\ res' = it.decls
          /\ pc' = IF it.p.panicked THEN "panicked" ELSE "parse"
    /\ scanner' = parser'.scanner
    /\ UNCHANGED <<scanVars, driverVars>>

ParseReturn ==
    /\ pc = "parse"
    /\ p_is_at_end(parser)
    /\ pc' = "done"
    /\ UNCHANGED <<scanner, scanVars, parseVars, driverVars>>

NextParse == ReadParseFile \/ NewParser \/ ParseDeclStep \/ ParseReturn

SpecParse == InitRead /\ [][NextParse]_vars

\* parse() is sequential code on one thread: whenever it has a next step it
\* takes it, which is weak fairness of every step.  For NewParser and
\* ParseDeclStep the weak fairness condition is written out, with the guard
\* of the action in the place of ENABLED.
SpecParseLive ==
    /\ SpecParse
    /\ WF_vars(ReadParseFile)
    /\ WF_vars(ParseReturn)
    /\ ([]<>~(pc = "new") \/ []<><<NewParser>>_vars)
    /\ ([]<>~(pc = "parse" /\ ~p_is_at_end(parser)) \/ []<><<ParseDeclStep>>_vars)

(***************************************************************************)
(* The driver loop of run_simple_compiler (lib.rs 61-67).  pending is what *)
(* the successive parse_one_decl calls return: Some(decl), or None for a   *)
(* declaration that did not parse.  validated records, for every           *)
(* validate_one_decl call, the declaration, the validator before and after *)
(* the call, the number of errors reported during the call and the value   *)
(* returned; compiled is what was handed to compile_one_decl.              *)
(***************************************************************************)
MaxDecls == 3

Block(stmts) == Stmt("Block", 1, <<>>, 0, <<>>, stmts)

ExprStmt(expr) == Stmt("Expr", expr.pos, <<>>, 0, <<expr>>, <<>>)

DeclPool ==
    LET a == <<"a">>
        b == <<"b">>
        c == <<"c">>
        one == IntLit(1, 1)
        sum == BinOp(2, one, "Plus", one)
        break == Stmt("Break", 1, <<>>, 0, <<>>, <<>>)
        continue == Stmt("Continue", 2, <<>>, 0, <<>>, <<>>)
    IN { Data(1, <<"x">>, 1, <<>>),
         Data(1, <<"y">>, 3, <<StringLit(1, <<"o", "k">>)>>),
         Data(1, <<"z">>, 1, <<Var(1, <<"x">>)>>),
         Function(1, <<"f">>, <<a>>,
                  Block(<<Stmt("Return", 1, <<>>, 0, <<Var(1, a)>>, <<>>)>>)),
         Function(2, <<"x">>, <<>>, Block(<<>>)),
         \* k(a) { b; auto b = 1 + 1; b; extern c; c + a; x; k;
         \*        auto d = a; auto e = 1; }
         Function(1, <<"k">>, <<a>>,
                  Block(<<ExprStmt(Var(1, b)),
                          Stmt("Auto", 2, b, 1, <<sum>>, <<>>),
                          ExprStmt(Var(3, b)),
                          Stmt("Extern", 3, c, 0, <<>>, <<>>),
                          ExprStmt(BinOp(4, Var(4, c), "Plus", Var(4, a))),
                          ExprStmt(Var(5, <<"x">>)),
                          ExprStmt(Var(6, <<"k">>)),
                          Stmt("Auto", 7, <<"d">>, 1, <<Var(7, a)>>, <<>>),
                          Stmt("Auto", 8, <<"e">>, 1, <<one>>, <<>>)>>)),
         \* m(a, a) { auto a; auto b; { auto b; } extern b; b; d; }
         Function(1, <<"m">>, <<a, a>>,
                  Block(<<Stmt("Auto", 2, a, 1, <<>>, <<>>),
                          Stmt("Auto", 3, b, 1, <<>>, <<>>),
                          Block(<<Stmt("Auto", 4, b, 1, <<>>, <<>>)>>),
                          Stmt("Extern", 5, b, 0, <<>>, <<>>),
                          ExprStmt(Var(6, b)),
                          ExprStmt(Var(7, <<"d">>))>>)),
         \* n() { do { break; while (1) { continue; } continue; } while (1);
         \*       continue; if (1) break; else while (1) break; }
         Function(1, <<"n">>, <<>>,
                  Block(<<Stmt("DoWhile", 1, <<>>, 0, <<one>>,
                               <<Block(<<break,
                                         Stmt("While", 1, <<>>, 0, <<one>>,
                                              <<Block(<<continue>>)>>),
                                         continue>>)>>),
                          continue,
                          Stmt("If", 1, <<>>, 0, <<one>>,
                               <<break,
                                 Stmt("While", 1, <<>>, 0, <<one>>, <<break>>)>>)>>)) }

InitDriver ==
    /\ scanner = Scanner_new(<<>>)
    /\ token = NoToken
    /\ ncalls = 0
    /\ parser = NoParser
    /\ res = <<>>
    /\ validator = Validator_new
    /\ pending \in SeqsUpTo({<<d>> : d \in DeclPool} \cup {<<>>}, MaxDecls)
    /\ validated = <<>>
    /\ compiled = <<>>
    /\ pc = "drive"

\* compile_one_decl: the declaration is added to the generated output.
compile_one_decl(code, decl) == Append(code, decl)

DriverStep ==
    /\ pc = "drive"
    /\ pending # <<>>
    /\ pending' = Tail(pending)
    /\ IF Head(pending) = <<>>
       THEN UNCHANGED <<validator, validated, compiled>>
       ELSE LET decl == Head(pending)[1]
                r == validate_one_decl(validator, decl)
            IN /\ validator' = r.v
               /\ validated' = Append(validated,
                                  [decl |-> decl,
                                   before |-> validator,
                                   after |-> r.v,
                                   errors |-> Len(r.v.out) - Len(validator.out),
                                   ret |-> r.ret])
               /\ compiled' = IF r.ret THEN compile_one_decl(compiled, decl)
                              ELSE compiled
    /\ UNCHANGED <<scanner, scanVars, parseVars, pc>>

DriverExit ==
    /\ pc = "drive"
    /\ pending = <<>>
    /\ pc' = "written"
    /\ UNCHANGED <<scanner, scanVars, parseVars, driverVars>>

NextDriver == DriverStep \/ DriverExit

SpecDriver == InitDriver /\ [][NextDriver]_vars

(***************************************************************************)
(* Claims.                                                                 *)
(***************************************************************************)
DeclsOf(records) == [i \in DOMAIN records |-> records[i].decl]

IsErrorFree(record) == record.errors = 0

\* C1: validate_one_decl returns true exactly when no error was reported
\* while validating the declaration, and the declarations handed to the
\* code generator are exactly the error-free ones, in source order.
C1_CompiledAreTheErrorFree ==
    /\ \A i \in DOMAIN validated : validated[i].ret = (validated[i].errors = 0)
    /\ compiled = DeclsOf(SelectSeq(validated, IsErrorFree))

\* One next_token call, as C2 requires it: a token that is not EndOfFile
\* consumed at least one byte of the file, a call made after an EndOfFile
\* returns EndOfFile, and once more calls were made than the file has bytes
\* the token returned is EndOfFile.
C2_Call ==
    /\ (pc = "scan" /\ token'.kind # "EndOfFile") =>
          (scanner'.current > scanner.current /\ scanner'.current <= Len(scanner.file))
    /\ (token.kind = "EndOfFile") => (token'.kind = "EndOfFile")
    /\ (ncalls' > Len(scanner'.file)) => (token'.kind = "EndOfFile")

\* C2: repeated next_token calls reach an EndOfFile token after finitely
\* many calls (at most one more than the file has bytes, since every token
\* that is not EndOfFile consumes at least one byte), and every call after
\* the first EndOfFile returns EndOfFile again.
C2_EndOfFileReachedAndStable == [][C2_Call]_vars

\* C2 witness: a file that is not empty was scanned to its end and
\* next_token was called again after the first EndOfFile.
C2_Witness ==
    /\ Len(scanner.file) > 0
    /\ token.kind = "EndOfFile"
    /\ scanner.current >= Len(scanner.file) + 2

\* The declarations parse() returned for a file that parsed without error.
ParsedAs(file, decls) ==
    (pc = "done" /\ scanner.file = file) => (res = decls /\ ~parser.had_error)

\* C3: on a broken function followed by a well-formed one, exactly one error
\* is reported and the returned list holds the second function.
C3_DeclarationRecovery ==
    \A d \in BOOLEAN : \A b \in BrokenFns(d) :
        (pc = "done" /\ scanner.file = TwoFnFile(b, d)) =>
            /\ Len(parser.out) = 1
            /\ \E k \in DOMAIN res : res[k] = Function(1, G, <<>>, Block(<<>>))

\* C4: after the error of a malformed statement that is followed by
\* `return ;`, synchronize_stmt stops with `return` as the lookahead without
\* having consumed it, and the Block holds the Return statement.
C4_StatementRecovery ==
    \A m \in Malformed :
        (pc = "done" /\ scanner.file = RecoverFile(m)) =>
            /\ Len(parser.out) = 1
            /\ Len(parser.sync) = 1
            /\ parser.sync[1].level = "stmt"
            /\ parser.sync[1].stop = "KeywordReturn"
            /\ \A k \in DOMAIN parser.sync[1].skipped :
                  parser.sync[1].skipped[k] # "KeywordReturn"
            /\ res = <<Function(1, F, <<>>, Block(<<ReturnStmt>>))>>

\* C5: name ( p1 , ... , pn ) { statements } parses without error into one
\* Function declaration with that name and the parameters p1..pn in order.
C5_FunctionDeclaration ==
    \A ps \in ParamLists, b \in Bodies :
        ParsedAs(FnFile(ps, b), <<Function(1, F, ps, Block(b.tree))>>)

\* The data declaration parse_decl returns for the file.
TopLevelData(file) == parse_decl(Parser_new(Scanner_new(file)))

\* C6: `auto t` in a function body gives an Auto statement with the name,
\* count and initializer of the data declaration that t gives at top level.
C6_AutoAsTopLevelData ==
    \A t \in VarTexts, d \in BOOLEAN :
        (pc = "done" /\ scanner.file = AutoFile(t, d)) =>
            LET top == TopLevelData(TopFile(t)) IN
            /\ top.ok
            /\ top.v.kind = "Data"
            /\ res = <<Function(1, F, <<>>,
                          Block(<<Stmt("Auto", 1, top.v.name, top.v.count,
                                       top.v.initial, <<>>)>>))>>

\* The tree the precedence ladder assigns to `1 o1 2 o2 3`: the operator of
\* the higher level is the deeper node, operators of one level fold to the
\* left, assignment folds to the right.
LadderTree(o1, o2) ==
    LET one == IntLit(1, 1)
        two == IntLit(1, 2)
        three == IntLit(1, 3)
        right == BinOp(1, one, o1.kind, BinOp(1, two, o2.kind, three))
        left == BinOp(1, BinOp(1, one, o1.kind, two), o2.kind, three)
    IN IF o1.level < o2.level THEN right
       ELSE IF o1.level > o2.level THEN left
       ELSE IF o1.kind = "Equal" THEN right
       ELSE left

\* C7: in an expression with two binary operators the operator of the
\* higher-binding level becomes the deeper BinOp, operators of the same level
\* fold left-associatively, and assignment is right-associative.
C7_PrecedenceLadder ==
    \A o1 \in BinOps, o2 \in BinOps :
        ParsedAs(PrecFile(o1, o2), <<Data(1, X, 1, <<LadderTree(o1, o2)>>)>>)

Op(kind) == CHOOSE o \in BinOps : o.kind = kind

\* C7 witness: `1 + 2 * 3`, `1 * 2 + 3`, `1 - 2 - 3` or `1 = 2 = 3` was
\* parsed.
C7_Witness ==
    /\ pc = "done"
    /\ res # <<>>
    /\ scanner.file \in {PrecFile(Op("Plus"), Op("Star")), PrecFile(Op("Star"), Op("Plus")),
                         PrecFile(Op("Minus"), Op("Minus")),
                         PrecFile(Op("Equal"), Op("Equal"))}

\* A tree without its positions.
RECURSIVE StripPos(_)
StripPos(e) ==
    [e EXCEPT !.pos = 0, !.kids = [k \in DOMAIN e.kids |-> StripPos(e.kids[k])]]

\* The file parsed without error into one data declaration whose
\* initializer is the given tree, positions ignored.
InitializerIs(file, tree) ==
    (pc = "done" /\ scanner.file = file) =>
        /\ ~parser.had_error
        /\ Len(res) = 1
        /\ res[1].kind = "Data"
        /\ Len(res[1].initial) = 1
        /\ StripPos(res[1].initial[1]) = StripPos(tree)

NodeKinds == {"IntLit", "StringLit", "Var", "UnaryOp", "BinOp", "Ternary"}

RECURSIVE OnlyNodeKinds(_)
OnlyNodeKinds(e) ==
    e.kind \in NodeKinds /\ \A k \in DOMAIN e.kids : OnlyNodeKinds(e.kids[k])

\* C8: e[i] parses to UnaryOp(*, prefix, BinOp(e, +, BinOp(i, *, IntLit(4)))),
\* the tree (positions ignored) that *(e + (i)*4) parses to, and that
\* *(e + i*4) parses to when i is a primary; the tree has no node kind for
\* indexing.
C8_IndexingDesugared ==
    \A e \in Primaries, i \in Indexes :
        /\ InitializerIs(IndexFile(e, i), Deref(e.tree, i.tree))
        /\ InitializerIs(IndexFileNl(e, i), Deref(e.tree, i.tree))
        /\ InitializerIs(DerefFile(e, i), Deref(e.tree, i.tree))
        /\ i.primary => InitializerIs(PlainDerefFile(e, i), Deref(e.tree, i.tree))
        /\ (pc = "done" /\ scanner.file \in {IndexFile(e, i), IndexFileNl(e, i)}) =>
              OnlyNodeKinds(res[1].initial[1])

\* C8 witness: an indexing expression whose `[` is on the second line was
\* parsed, so the desugared nodes carry a position the explicit form does not.
C8_Witness ==
    /\ pc = "done"
    /\ \E e \in Primaries, i \in Indexes : scanner.file = IndexFileNl(e, i)
    /\ Len(res) = 1
    /\ res[1].initial # <<>>
    /\ res[1].initial[1].kind = "UnaryOp"
    /\ res[1].initial[1].pos = 2

\* C9: an identifier-shaped lexeme gets a keyword kind only when it is
\* exactly that keyword, and Identifier otherwise.
C9_KeywordsMatchExactly ==
    (token.kind \in KeywordKinds \cup {"Identifier"}) =>
        /\ (token.kind \in KeywordKinds) = (token.data \in Keywords)
        /\ (token.kind \in KeywordKinds) => (token.data = KeywordOf(token.kind))

RECURSIVE ExprInts(_)
ExprInts(e) ==
    IF e.kind = "IntLit" THEN {e.num}
    ELSE UNION {ExprInts(e.kids[k]) : k \in DOMAIN e.kids}

RECURSIVE StmtInts(_)
StmtInts(st) ==
    {st.count} \cup UNION {ExprInts(st.expr[k]) : k \in DOMAIN st.expr}
               \cup UNION {StmtInts(st.kids[k]) : k \in DOMAIN st.kids}

\* The IntLit values and the counts of a declaration.
DeclInts(d) ==
    {d.count} \cup UNION {ExprInts(d.initial[k]) : k \in DOMAIN d.initial}
              \cup UNION {StmtInts(d.body[k]) : k \in DOMAIN d.body}

DataY == Data(1, Y, 1, <<>>)

\* What parse() returns for LitFile(n, ctx): the literal's value in its
\* place, or what is left once the declaration or statement with the
\* literal is dropped.
LitResult(n, ctx) ==
    LET lit == IntLit(1, n.num) IN
    CASE ctx = "initial" ->
           IF n.fits THEN <<Data(1, X, 1, <<lit>>), DataY>> ELSE <<DataY>>
      [] ctx = "count" ->
           IF n.fits THEN <<Data(1, X, n.num, <<>>), DataY>> ELSE <<DataY>>
      [] ctx = "operand" ->
           IF n.fits
           THEN <<Data(1, X, 1, <<BinOp(1, IntLit(1, 1), "Plus", lit)>>), DataY>>
           ELSE <<DataY>>
      [] ctx = "stmt" ->
           <<Function(1, F, <<>>,
                Block(IF n.fits
                      THEN <<Stmt("Expr", 1, <<>>, 0, <<lit>>, <<>>), ReturnStmt>>
                      ELSE <<ReturnStmt>>))>>

RangeMessages == {"number too large to fit in target type",
                  "number too small to fit in target type"}

\* C10: every IntLit value and every count of the tree is a signed 32-bit
\* value; a literal in that range is taken with its value, and a literal
\* outside it is one reported error that sets had_error and is recovered from
\* like a syntax error, without a panic.
C10_LiteralsFitI32 ==
    /\ \A k \in DOMAIN res : DeclInts(res[k]) \subseteq I32Min..I32Max
    /\ (scanner.file \in LitFiles) => (pc # "panicked")
    /\ \A n \in Literals, ctx \in LitContexts :
          (pc = "done" /\ scanner.file = LitFile(n, ctx)) =>
              /\ res = LitResult(n, ctx)
              /\ parser.had_error = ~n.fits
              /\ Len(parser.out) = IF n.fits THEN 0 ELSE 1
              /\ \A k \in DOMAIN parser.out : parser.out[k].msg \in RangeMessages

\* C10 witness: a file with a literal outside the range was parsed to its
\* end, the error reported and the rest of the file returned.
C10_Witness ==
    /\ pc = "done"
    /\ \E n \in Literals, ctx \in LitContexts :
          ~n.fits /\ scanner.file = LitFile(n, ctx)
    /\ parser.had_error
    /\ Len(parser.out) = 1
    /\ res # <<>>

\* The errors reported during one validate_one_decl call, in order.
Reported(record) ==
    SubSeq(record.after.out, Len(record.before.out) + 1, Len(record.after.out))

\* The validate_stmt and validate_expr calls made during one
\* validate_one_decl call, in order.
Visits(record) ==
    SubSeq(record.after.visited, Len(record.before.visited) + 1,
           Len(record.after.visited))

Registration(name, pos) == [reg |-> TRUE, name |-> name, pos |-> pos]

\* The Var occurrences of an expression, left to right.
RECURSIVE ExprUses(_)
ExprUses(e) ==
    IF e.kind = "Var" THEN <<[reg |-> FALSE, name |-> e.name, pos |-> e.pos]>>
    ELSE Cat([k \in DOMAIN e.kids |-> ExprUses(e.kids[k])])

\* The registrations (auto, extern) and the Var occurrences of a statement
\* in the order the validator visits them: a condition before the
\* statements it guards, except for do-while.  The initializer of an auto
\* is not an expression statement and is left to C14.
RECURSIVE StmtEvents(_)
StmtEvents(st) ==
    LET uses == Cat([k \in DOMAIN st.expr |-> ExprUses(st.expr[k])])
        inner == Cat([k \in DOMAIN st.kids |-> StmtEvents(st.kids[k])])
    IN CASE st.kind \in {"Auto", "Extern"} -> <<Registration(st.name, st.pos)>>
         [] st.kind = "DoWhile" -> inner \o uses
         [] OTHER -> uses \o inner

DeclEvents(decl) ==
    [k \in DOMAIN decl.params |-> Registration(decl.params[k], decl.pos)]
    \o StmtEvents(decl.body[1])

\* The undefined-reference errors C11 asks for: one for every Var occurrence
\* whose name no earlier event registered.
RECURSIVE UndefinedFrom(_, _)
UndefinedFrom(events, known) ==
    IF events = <<>> THEN <<>>
    ELSE IF Head(events).reg
    THEN UndefinedFrom(Tail(events), known \cup {Head(events).name})
    ELSE (IF Head(events).name \in known THEN <<>>
          ELSE <<[line |-> Head(events).pos, msg |-> "undefinded reference to",
                  name |-> Head(events).name]>>)
         \o UndefinedFrom(Tail(events), known)

IsUndefinedReference(error) == error.msg = "undefinded reference to"

RECURSIVE RedefinedFrom(_, _)
RedefinedFrom(events, known) ==
    IF events = <<>> THEN <<>>
    ELSE IF ~Head(events).reg THEN RedefinedFrom(Tail(events), known)
    ELSE (IF Head(events).name \in known
          THEN <<[line |-> Head(events).pos, msg |-> "redefinition of local",
                  name |-> Head(events).name]>>
          ELSE <<>>)
         \o RedefinedFrom(Tail(events), known \cup {Head(events).name})

IsLocalRedefinition(error) == error.msg = "redefinition of local"

NoDuplicates(vec) == \A i, j \in DOMAIN vec : vec[i] = vec[j] => i = j

\* The statements of a statement, itself included.
RECURSIVE StmtsOf(_)
StmtsOf(st) == {st} \cup UNION {StmtsOf(st.kids[k]) : k \in DOMAIN st.kids}

VisitedNodes(record) == {Visits(record)[k].node : k \in DOMAIN Visits(record)}

\* C12: parameters, auto names and extern names of one function share one
\* flat local namespace: every registration of a name that is already in the
\* local table reports exactly one redefinition-of-local error, the table
\* never holds a name twice, and the rest of the body is still validated.
C12_FlatLocalNamespace ==
    \A i \in DOMAIN validated :
        validated[i].decl.kind = "Function" =>
            /\ SelectSeq(Reported(validated[i]), IsLocalRedefinition)
                  = RedefinedFrom(DeclEvents(validated[i].decl), {})
            /\ \A k \in DOMAIN Visits(validated[i]) :
                  NoDuplicates(Visits(validated[i])[k].local_data)
            /\ StmtsOf(validated[i].decl.body[1]) \subseteq VisitedNodes(validated[i])

\* m(a, a) { auto a; auto b; { auto b; } extern b; b; d; }: four repeated
\* registrations, each reported once, and the two statements after them are
\* validated with the table holding a and b once.
C12_Witness ==
    \E i \in DOMAIN validated :
        /\ validated[i].decl.name = <<"m">>
        /\ Len(SelectSeq(Reported(validated[i]), IsLocalRedefinition)) = 4
        /\ Len(SelectSeq(Reported(validated[i]), IsUndefinedReference)) = 1
        /\ Visits(validated[i])[Len(Visits(validated[i]))].local_data
              = << <<"a">>, <<"b">> >>

\* The validate_expr calls for an expression met with d loop bodies around
\* it: the node, then its operands.
RECURSIVE ExprVisits(_, _)
ExprVisits(e, d) ==
    <<[node |-> e, loop_count |-> d]>>
    \o Cat([k \in DOMAIN e.kids |-> ExprVisits(e.kids[k], d)])

\* The validate_stmt and validate_expr calls C13 asks for when a statement
\* is met with d While/DoWhile bodies around it: the body of a loop has one
\* more around it, the condition of the loop has not, and the condition of
\* a do-while comes after its body.
RECURSIVE StmtVisits(_, _)
StmtVisits(st, d) ==
    LET inLoop == IF st.kind \in {"While", "DoWhile"} THEN d + 1 ELSE d
        conds == IF st.kind = "Auto" THEN <<>>
                 ELSE Cat([k \in DOMAIN st.expr |-> ExprVisits(st.expr[k], d)])
        inner == Cat([k \in DOMAIN st.kids |-> StmtVisits(st.kids[k], inLoop)])
    IN <<[node |-> st, loop_count |-> d]>>
       \o (IF st.kind = "DoWhile" THEN inner \o conds ELSE conds \o inner)

\* One outside-of-loop error for every Break or Continue met with no loop
\* body around it.
RECURSIVE OutsideOfLoop(_)
OutsideOfLoop(visits) ==
    IF visits = <<>> THEN <<>>
    ELSE (IF Head(visits).loop_count = 0 /\ Head(visits).node.kind = "Break"
          THEN <<[line |-> Head(visits).node.pos,
                  msg |-> "break statement appeared outside of loop",
                  name |-> <<>>]>>
          ELSE IF Head(visits).loop_count = 0 /\ Head(visits).node.kind = "Continue"
          THEN <<[line |-> Head(visits).node.pos,
                  msg |-> "continue statement appeared outside of loop",
                  name |-> <<>>]>>
          ELSE <<>>)
         \o OutsideOfLoop(Tail(visits))

IsOutsideOfLoop(error) ==
    error.msg \in {"break statement appeared outside of loop",
                   "continue statement appeared outside of loop"}

\* C13: while a declaration is validated the loop counter equals the number
\* of While/DoWhile bodies around the statement or expression being visited
\* (a do-while condition is outside its own body), Break and Continue report
\* an outside-of-loop error exactly when that number is 0, and the counter
\* is 0 again when validate_one_decl returns.
C13_LoopCounterIsNesting ==
    \A i \in DOMAIN validated :
        /\ validated[i].after.loop_count = 0
        /\ validated[i].decl.kind = "Function" =>
              /\ [k \in DOMAIN Visits(validated[i]) |->
                     [node |-> Visits(validated[i])[k].node,
                      loop_count |-> Visits(validated[i])[k].loop_count]]
                    = StmtVisits(validated[i].decl.body[1], 0)
              /\ SelectSeq(Reported(validated[i]), IsOutsideOfLoop)
                    = OutsideOfLoop(StmtVisits(validated[i].decl.body[1], 0))

\* n() { do { break; while (1) { continue; } continue; } while (1);
\*       continue; if (1) break; else while (1) break; }: a statement is
\* visited with the counter at 2, the do-while condition with 0, and only
\* the continue and the break outside the loops are reported.
C13_Witness ==
    \E i \in DOMAIN validated :
        /\ validated[i].decl.name = <<"n">>
        /\ \E k \in DOMAIN Visits(validated[i]) :
              /\ Visits(validated[i])[k].node.kind = "Continue"
              /\ Visits(validated[i])[k].loop_count = 2
        /\ [k \in 1..Len(Reported(validated[i])) |-> Reported(validated[i])[k].msg]
              = <<"continue statement appeared outside of loop",
                  "break statement appeared outside of loop">>

\* The initializers of a statement and of the statements in it, in the
\* order the validator meets them.
RECURSIVE StmtInitializers(_)
StmtInitializers(st) ==
    (IF st.kind = "Auto" THEN st.expr ELSE <<>>)
    \o Cat([k \in DOMAIN st.kids |-> StmtInitializers(st.kids[k])])

\* The initializers that are present in a declaration: the one of an
\* external declaration, those of the auto statements of a function.
DeclInitializers(decl) ==
    IF decl.kind = "Function" THEN StmtInitializers(decl.body[1]) ELSE decl.initial

IsNotLiteral(e) == e.kind \notin {"IntLit", "StringLit"}

InitializerError(e) ==
    [line |-> e.pos,
     msg |-> "only integer or string literals are allowed to be iexpr",
     name |-> <<>>]

IsInitializerError(error) ==
    error.msg = "only integer or string literals are allowed to be iexpr"

\* The part of C14 about the errors: an absent, IntLit or StringLit
\* initializer reports nothing, any other initializer exactly one
\* initializer-constraint error.
InitializerErrorsReported(record) ==
    LET bad == SelectSeq(DeclInitializers(record.decl), IsNotLiteral)
    IN SelectSeq(Reported(record), IsInitializerError)
         = [k \in DOMAIN bad |-> InitializerError(bad[k])]

\* C14: the initializer of an external declaration or of an auto statement
\* is accepted when it is absent or an IntLit or StringLit node; one of any
\* other kind reports exactly one initializer-constraint error and the
\* enclosing declaration is rejected (validate_one_decl returns false and
\* the declaration is not compiled).
C14_InitializerMustBeLiteral ==
    \A i \in DOMAIN validated :
        /\ InitializerErrorsReported(validated[i])
        /\ (\E k \in DOMAIN DeclInitializers(validated[i].decl) :
                IsNotLiteral(DeclInitializers(validated[i].decl)[k]))
              => (~validated[i].ret /\ ~Contains(compiled, validated[i].decl))

\* The names of a sequence without repetitions, in the order of their
\* first occurrence.
RECURSIVE Distinct(_)
Distinct(names) ==
    IF names = <<>> THEN <<>>
    ELSE LET front == Distinct(SubSeq(names, 1, Len(names) - 1))
         IN IF Contains(front, names[Len(names)]) THEN front
            ELSE Append(front, names[Len(names)])

IsGlobalRedefinition(error) == error.msg = "redefinition of global"

GlobalRedefinition(decl) ==
    [line |-> decl.pos, msg |-> "redefinition of global", name |-> decl.name]

\* The part of C15 about the symbol set and the errors: the set holds the
\* names of the declarations seen so far once each, and a call reports one
\* redefinition-of-global error when the name of its declaration was in
\* the set already, none otherwise.
GlobalsPersist ==
    /\ validator.global_data
          = Distinct([i \in DOMAIN validated |-> validated[i].decl.name])
    /\ \A i \in DOMAIN validated :
          /\ validated[i].before.global_data
                = Distinct([j \in 1..(i - 1) |-> validated[j].decl.name])
          /\ SelectSeq(Reported(validated[i]), IsGlobalRedefinition)
                = IF \E j \in 1..(i - 1) :
                        validated[j].decl.name = validated[i].decl.name
                  THEN <<GlobalRedefinition(validated[i].decl)>>
                  ELSE <<>>

\* C15: the global symbol set persists across validate_one_decl calls and
\* only grows, holding the name of every declaration seen so far without
\* duplicates; a declaration whose name is already in the set reports a
\* redefinition-of-global error for that declaration only, and a later
\* declaration is still checked and, having no error of its own, accepted.
C15_GlobalsPersistAcrossCalls ==
    /\ GlobalsPersist
    /\ \A i, j \in DOMAIN validated :
          (/\ i < j
           /\ SelectSeq(Reported(validated[i]), IsGlobalRedefinition) # <<>>
           /\ validated[j].errors = 0)
          => validated[j].ret

\* A validator that has seen nothing but the given global symbols.
FreshWith(global_data) == [Validator_new EXCEPT !.global_data = global_data]

StartsClean(v) == v.local_data = <<>> /\ v.loop_count = 0 /\ ~v.had_error

\* C16: at the start of every validate_one_decl call the local symbol table
\* is empty, the loop counter is 0 and the error flag is false, so the value
\* returned, the errors reported and the global symbol set after a call are
\* those of the same call on a validator that holds the same global symbols
\* and nothing else.
C16_CallsAreIndependent ==
    /\ StartsClean(validator)
    /\ \A i \in DOMAIN validated :
          /\ StartsClean(validated[i].before)
          /\ \E alone \in {validate_one_decl(
                               FreshWith(validated[i].before.global_data),
                               validated[i].decl)} :
                /\ alone.ret = validated[i].ret
                /\ alone.v.out = Reported(validated[i])
                /\ alone.v.global_data = validated[i].after.global_data

\* m is validated right after k, which registered the locals a, b, c, d and
\* e and reported errors: m starts with an empty table and its `d` is
\* undefined all the same.
C16_Witness ==
    /\ Len(validated) >= 2
    /\ validated[1].decl.name = <<"k">>
    /\ validated[1].errors > 0
    /\ validated[2].decl.name = <<"m">>
    /\ validated[2].before.local_data = <<>>
    /\ \E k \in DOMAIN Reported(validated[2]) :
          /\ IsUndefinedReference(Reported(validated[2])[k])
          /\ Reported(validated[2])[k].name = <<"d">>

\* One step of parse() as C17 requires it: the flag is not reset, and after
\* an iteration that reported an error the loop is still running.
C17_Step ==
    pc = "parse" =>
        /\ parser.had_error => parser'.had_error
        /\ (Len(parser'.out) > Len(parser.out) /\ ~parser'.panicked)
              => pc' = "parse"

\* C17: had_error is false when the parser is created, becomes true at the
\* first parse error, whether it is recovered at declaration or at statement
\* level, and is never reset; when parse() has returned it is true if and
\* only if an error was reported, and parse() has gone on to the end of the
\* input after each error.
C17_HadErrorStickyAndExact ==
    /\ [](pc \in {"parse", "done"} => (parser.had_error <=> parser.out # <<>>))
    /\ [](pc = "done" => p_is_at_end(parser))
    /\ [][C17_Step]_vars

\* parse() has returned after reporting one error recovered inside a block
\* and, later, one recovered at declaration level.
C17_Witness ==
    /\ pc = "done"
    /\ parser.had_error
    /\ Len(parser.out) >= 2
    /\ \E i, j \in DOMAIN parser.sync :
          i < j /\ parser.sync[i].level = "stmt" /\ parser.sync[j].level = "decl"

\* C19: parse_block_stmt returns a Block only when the `}` that closes this
\* very block was consumed by its own loop; when the input ends first the
\* block yields an "expected '}'" error instead.
C19_BlockNeedsItsOwnBrace ==
    pc \in {"parse", "panicked", "done"} =>
        \A k \in DOMAIN parser.blocks :
            parser.blocks[k].ok => parser.blocks[k].closed

\* The token just returned began with the byte `-`: next_token read it as
\* the first byte after the whitespace.
TokenBeganWithMinus ==
    /\ pc = "scan"
    /\ ncalls > 0
    /\ token.kind # "EndOfFile"
    /\ Get(scanner.file, scanner.start) = "-"

\* The token just returned is the IntLiteral made of the `-` at start and of
\* all the digits that follow it.
IsNegativeLiteral ==
    /\ token.kind = "IntLiteral"
    /\ token.data = SubSeq(scanner.file, scanner.start + 1, scanner.current)
    /\ scanner.current > scanner.start + 1
    /\ \A k \in (scanner.start + 1)..(scanner.current - 1) :
          is_digit(Get(scanner.file, k))
    /\ ~is_digit(Get(scanner.file, scanner.current))

\* C18: a `-` that is not followed by another `-` and is immediately
\* followed by a digit is returned as one IntLiteral token, the `-` with the
\* maximal digit run, whatever token precedes it; so `a-5` gives Identifier
\* a and IntLiteral -5 and no Minus token, while a `-` followed by anything
\* else, as in `a - 5`, is a Minus token.
C18_MinusDigitIsOneLiteral ==
    /\ TokenBeganWithMinus =>
          IF Get(scanner.file, scanner.start + 1) = "-"
          THEN token.kind = "MinusMinus"
          ELSE IF is_digit(Get(scanner.file, scanner.start + 1))
          THEN IsNegativeLiteral
          ELSE token.kind = "Minus" /\ token.data = <<"-">>
    /\ (pc = "scan" /\ scanner.file = <<"a", "-", "5">>) => token.kind # "Minus"
    /\ (pc = "scan" /\ scanner.file = <<"a", " ", "-", " ", "5">> /\ ncalls = 2)
          => token.kind = "Minus"

\* The second token of `a-5`, after the Identifier a: IntLiteral -5.
C18_Witness ==
    /\ TokenBeganWithMinus
    /\ scanner.file = <<"a", "-", "5">>
    /\ ncalls = 2
    /\ token.kind = "IntLiteral"
    /\ token.data = <<"-", "5">>

\* One turn of the loop of parse(): the current token afterwards begins
\* further in the file than the current token before.
C20_Step ==
    (pc = "parse" /\ pc' # "done") => parser'.scanner.start > parser.scanner.start

\* What C20 says of the loop of parse_block_stmt and of the two recovery
\* routines: every turn of the block loop consumed a token, each recovery
\* advanced at least once, and no recovery advanced again once it had the
\* EndOfFile token.
C20_Progress ==
    pc \in {"parse", "panicked", "done"} =>
        /\ \A k \in DOMAIN parser.turns : parser.turns[k].to > parser.turns[k].from
        /\ \A k \in DOMAIN parser.sync :
              /\ Len(parser.sync[k].skipped) >= 1
              /\ \A j \in 2..Len(parser.sync[k].skipped) :
                    parser.sync[k].skipped[j - 1] # "EndOfFile"

\* C20: parse() terminates on every finite input, well-formed or not: every
\* turn of the declaration loop and of the block statement loop consumes at
\* least one token, synchronize_decl and synchronize_stmt each advance at
\* least once, and both stop at the end of the input.
C20_ParseTerminates ==
    /\ <>(pc \in {"done", "panicked"})
    /\ [][C20_Step]_vars
    /\ []C20_Progress

\* parse() has returned after both recovery routines ran to the end of the
\* input and a block loop made more than one turn.
C20_Witness ==
    /\ pc = "done"
    /\ Len(parser.turns) >= 2
    /\ \E k \in DOMAIN parser.sync :
          parser.sync[k].level = "stmt" /\ parser.sync[k].stop = "EndOfFile"
    /\ \E k \in DOMAIN parser.sync :
          parser.sync[k].level = "decl" /\ parser.sync[k].stop = "EndOfFile"
====
